---- MODULE Spec2Model ----
(***************************************************************************)
(* Post/tag lifecycle of the watame backend: upload, user delete           *)
(* (soft-delete), restore and purge, over the relational store (posts and  *)
(* tags tables, READ COMMITTED transactions with row locks) and the        *)
(* storage root on disk.                                                   *)
(***************************************************************************)
EXTENDS Integers, Sequences, FiniteSets, TLC

\* The posts id sequence stands at FirstId when the run starts and hands out
\* MaxPosts identifiers; they straddle 2^16, where the image subfolder changes.
FirstId == 65535
MaxPosts == 2
PostIds == FirstId .. (FirstId + MaxPosts - 1)

\* Independently scheduled request tasks (actix workers), two at a time.
Reqs == {1, 2}

\* users table: id -> perms (column 5 of the row).
UserPerms == (1 :> "User") @@ (2 :> "User") @@ (3 :> "Admin")
Users == DOMAIN UserPerms
\* The authenticated users that upload
Uploaders == {1}

\* Tag strings are sequences of characters.
TagA == <<"a">>
TagB == <<"b">>
\* Tag lists a client sends in the "data" part of an upload.
TagLists ==
    { <<TagA>>, <<TagA, TagB>>, <<TagA, TagA>>, << <<" ", "a">> >>, << <<"!", "a">> >> }

\* Sanitised file names of the "image" part.
FileNames == {"f.png"}

\* Post ids a delete request may carry in its query string.
QueryIds == PostIds \cup {-1}

EmptyFn == [x \in {} |-> 0]
Range(s) == {s[i] : i \in DOMAIN s}
Restrict(f, S) == [x \in S |-> f[x]]

----------------------------------------------------------------------------
(* Pure helpers of the upload path *)

WhiteSpace == {" "}

RECURSIVE TrimStart(_)
TrimStart(s) ==
    IF s # <<>> /\ Head(s) \in WhiteSpace THEN TrimStart(Tail(s)) ELSE s

RECURSIVE TrimEnd(_)
TrimEnd(s) ==
    IF s # <<>> /\ s[Len(s)] \in WhiteSpace
    THEN TrimEnd(SubSeq(s, 1, Len(s) - 1))
    ELSE s

\* str::trim
Trim(s) == TrimEnd(TrimStart(s))

\* ta[i].chars().any(|c| matches!(c, '+' | '!'))
BadUploadTag(t) == \E i \in DOMAIN t : t[i] \in {"+", "!"}

\* The validation loop of post_upload: the trimmed tags, in input order.
TrimAll(ta) == [i \in DOMAIN ta |-> Trim(ta[i])]

\* Fault: the tags concatenated with nothing between them
RECURSIVE JoinTags_NoDelimiter(_)
JoinTags_NoDelimiter(ts) ==
    IF ts = <<>> THEN <<>> ELSE Head(ts) \o JoinTags_NoDelimiter(Tail(ts))

\* NewPost::insert_into: every tag followed by a comma, concatenated.
RECURSIVE JoinTags(_)
JoinTags(ts) ==
    IF ts = <<>> THEN <<>> ELSE Head(ts) \o <<",">> \o JoinTags(Tail(ts))

\* to_tsvector('tag_parser', $9): the distinct non-empty comma-separated
\* tokens of the string (a tsvector holds each lexeme once).
RECURSIVE Tokens(_, _)
Tokens(str, cur) ==
    IF str = <<>> THEN (IF cur = <<>> THEN {} ELSE {cur})
    ELSE IF Head(str) = ","
         THEN (IF cur = <<>> THEN {} ELSE {cur}) \cup Tokens(Tail(str), <<>>)
         ELSE Tokens(Tail(str), Append(cur, Head(str)))

ToTsvector(str) == Tokens(str, <<>>)

HexDigit(n) ==
    <<"0","1","2","3","4","5","6","7","8","9","a","b","c","d","e","f">>[n + 1]

RECURSIVE Hex(_)
Hex(n) == IF n < 16 THEN <<HexDigit(n)>> ELSE Hex(n \div 16) \o <<HexDigit(n % 16)>>

\* format!("{:02x}", id >> 16), for the non-negative ids the sequence assigns
ImagePath(id) ==
    LET h == Hex(id \div 65536)
    IN  IF Len(h) < 2 THEN <<"0">> \o h ELSE h

\* format_paths: (img_path, tmb_path) below the storage root
ImgPath(subfolder, id, filename) == <<"img", subfolder, <<id, "-", filename>> >>
TmbPath(subfolder, id) == <<"tmb", subfolder, <<id, ".jpg">> >>

\* The path a new row is inserted with, before update_path
PlaceholderPath == <<"0", "0">>

----------------------------------------------------------------------------
VARIABLES
    posts,    \* committed rows of table posts: id -> row
    tags,     \* committed rows of table tags: name -> count
    files,    \* files below the storage root
    nextId,   \* the posts id sequence
    req,      \* per request task: position and locals
    txPosts,  \* per request task: rows of posts written in its open transaction
    txTags,   \* per request task: rows of tags written in its open transaction
    out,      \* the response returned by the last step, if it returned one
    restores, \* restore calls made so far
    sessions  \* keys of the session store: key -> AuthInfo

vars == <<posts, tags, files, nextId, req, txPosts, txTags, out, restores, sessions>>

IdleReq ==
    [id |-> 0, filename |-> "", tags |-> <<>>, pc |-> "idle", op |-> "none", res |-> "none",
     uid |-> 0, tv |-> {}, todo |-> {}, removed |-> {}, skipped |-> {}]

\* A response: the handler, the APIError or "Ok"/"NotFound", and the outcome
\* of the joined file operations
Out(op, res) == [op |-> op, res |-> res, imgOk |-> TRUE, tmbOk |-> TRUE]

NoOut == Out("none", "none")

Init ==
    /\ posts = EmptyFn
    /\ tags = EmptyFn
    /\ files = {}
    /\ nextId = FirstId
    /\ req = [r \in Reqs |-> IdleReq]
    /\ txPosts = [r \in Reqs |-> EmptyFn]
    /\ txTags = [r \in Reqs |-> EmptyFn]
    /\ out = NoOut
    /\ restores = 0
    /\ sessions = EmptyFn

\* What a statement of request r reads: committed rows and its own writes
ViewPosts(r) == txPosts[r] @@ posts
ViewTags(r) == txTags[r] @@ tags

\* Fault: a writer that never waits for a row written in another open
\* transaction
TagLocked_Never(r, t) == FALSE

\* Row locks: a row written in another open transaction blocks a writer
PostLocked(r, id) == \E o \in Reqs \ {r} : id \in DOMAIN txPosts[o]
TagLocked(r, t) == \E o \in Reqs \ {r} : t \in DOMAIN txTags[o]
PostLockedByAny(id) == \E o \in Reqs : id \in DOMAIN txPosts[o]

----------------------------------------------------------------------------
(* Transactions *)

\* Request r returns `res`; its task ends.
Answer(r, res) ==
    /\ req' = [req EXCEPT ![r] = IdleReq]
    /\ out' = Out(req[r].op, res)

\* A handler that returns before it holds any state
AnswerAtOnce(r, op, res) ==
    /\ req' = [req EXCEPT ![r] = IdleReq]
    /\ out' = Out(op, res)

\* Request r goes on with locals `locals`
Goto(r, locals) ==
    /\ req' = [req EXCEPT ![r] = locals]
    /\ out' = NoOut

\* Fault: a dropped transaction whose writes stay
Rollback_KeepsWrites(r) ==
    /\ posts' = txPosts[r] @@ posts
    /\ tags' = txTags[r] @@ tags
    /\ txPosts' = [txPosts EXCEPT ![r] = EmptyFn]
    /\ txTags' = [txTags EXCEPT ![r] = EmptyFn]

\* Dropping the Transaction without commit rolls it back.
Rollback(r) ==
    /\ txPosts' = [txPosts EXCEPT ![r] = EmptyFn]
    /\ txTags' = [txTags EXCEPT ![r] = EmptyFn]
    /\ UNCHANGED <<posts, tags>>

\* try500!: the error is logged and the handler returns InternalError; the
\* open transaction, if any, is dropped.
Fail500(r) ==
    /\ Answer(r, "InternalError")
    /\ Rollback(r)

\* trans.commit(): the transaction's writes become the committed rows.
Commit(r) ==
    /\ posts' = txPosts[r] @@ posts
    /\ tags' = txTags[r] @@ tags
    /\ txPosts' = [txPosts EXCEPT ![r] = EmptyFn]
    /\ txTags' = [txTags EXCEPT ![r] = EmptyFn]

\* Writes of request r inside its transaction (GenericClient = Transaction):
\* `rows` of posts, and the rows `touched` of tags as in `newView`
TxWritePosts(r, rows) ==
    /\ txPosts' = [txPosts EXCEPT ![r] = rows @@ @]
    /\ UNCHANGED posts

TxWriteTags(r, newView, touched) ==
    /\ txTags' = [txTags EXCEPT ![r] = Restrict(newView, DOMAIN @ \cup touched)]
    /\ UNCHANGED tags

----------------------------------------------------------------------------
(* Tag counters *)

\* INSERT INTO tags (name, count) VALUES ($1, 1)
\*   ON CONFLICT (name) DO UPDATE SET count = tags.count+1
Upsert(view, t) ==
    IF t \in DOMAIN view THEN [view EXCEPT ![t] = @ + 1] ELSE (t :> 1) @@ view

\* Tag::update_tag_count: one upsert per element of the list
RECURSIVE UpdateTagCount(_, _)
UpdateTagCount(view, ts) ==
    IF ts = <<>> THEN view ELSE UpdateTagCount(Upsert(view, Head(ts)), Tail(ts))

\* Tag::update_decrease_counts:
\*   UPDATE tags SET count = count-1 WHERE name = ANY($1)
UpdateDecreaseCounts(view, names) ==
    [t \in DOMAIN view |-> IF t \in names THEN view[t] - 1 ELSE view[t]]

----------------------------------------------------------------------------
(* post_upload *)

\* NewPost::insert_into: the row RETURNING * gives back.  The columns the
\* INSERT does not name take their defaults: create_date the clock reading of
\* the insert (later inserts read later clocks, as the ids they draw), score
\* the same start value for every post.
NewRow(id, uid, ts, filename) ==
    [filename |-> filename, poster |-> uid, tag_vector |-> ToTsvector(JoinTags(ts)),
     path |-> PlaceholderPath, is_deleted |-> FALSE,
     create_date |-> id, score |-> 0]

\* Tag validation, pool.get(), conn.transaction() and
\* new_post.insert_into(&trans); the row is private to the transaction, so
\* these are one step for every other request.
UploadStartWith(r, lists) ==
    /\ req[r].pc = "idle"
    /\ nextId \in PostIds
    /\ \E uid \in Uploaders, ta \in lists, fname \in FileNames, ok \in BOOLEAN :
         IF \E i \in DOMAIN ta : BadUploadTag(ta[i])
         THEN /\ AnswerAtOnce(r, "upload", "BadTags")
              /\ UNCHANGED <<posts, txPosts, nextId>>
         ELSE IF ~ok
         THEN /\ AnswerAtOnce(r, "upload", "InternalError")
              /\ UNCHANGED <<posts, txPosts, nextId>>
         ELSE /\ TxWritePosts(r, nextId :> NewRow(nextId, uid, TrimAll(ta), fname))
              /\ nextId' = nextId + 1
              /\ Goto(r, [IdleReq EXCEPT !.op = "upload", !.pc = "u_tags",
                                         !.id = nextId, !.tags = TrimAll(ta),
                                         !.filename = fname])
    /\ UNCHANGED <<tags, files, txTags, restores, sessions>>

UploadStart(r) == UploadStartWith(r, TagLists)

\* Fault: an UPDATE without its WHERE clause
UpdatePath_EveryRow(view, id, newPath) ==
    [i \in DOMAIN view |-> [view[i] EXCEPT !.path = newPath]]

\* Fault: an update that leaves the row as inserted
UpdatePath_KeepsPlaceholder(view, id, newPath) == view

\* Post::update_path: UPDATE posts SET path=$1 WHERE id=$2 (the rows it
\* writes, given the table as the statement sees it)
UpdatePath(view, id, newPath) ==
    IF id \in DOMAIN view THEN (id :> [view[id] EXCEPT !.path = newPath]) ELSE EmptyFn

\* The next upsert of request r waits for a row that request o has written,
\* while the next upsert of o waits for a row that r has written
WaitsInCycle(r) ==
    \E o \in Reqs \ {r} :
        /\ Head(req[r].tags) \in DOMAIN txTags[o]
        /\ req[o].pc = "u_tags"
        /\ req[o].tags # <<>>
        /\ Head(req[o].tags) \in DOMAIN txTags[r]

\* Tag::update_tag_count(&trans, &tags), one upsert statement per step in
\* the order of the list: an upsert waits for the row lock of another open
\* transaction, and the store fails it when the two transactions wait for
\* each other.  With the last upsert goes
\* Post::Partial(post.id).update_path(&trans, &image_path(post.id)) on the
\* private row.
UploadTagCount(r) ==
    /\ req[r].pc = "u_tags"
    /\ IF req[r].tags # <<>> /\ TagLocked(r, Head(req[r].tags))
       THEN /\ WaitsInCycle(r)
            /\ Fail500(r)
       ELSE \E ok \in BOOLEAN :
              IF ~ok
              THEN Fail500(r)
              ELSE IF Len(req[r].tags) > 1
              THEN /\ TxWriteTags(r, Upsert(ViewTags(r), Head(req[r].tags)),
                                  {Head(req[r].tags)})
                   /\ Goto(r, [req[r] EXCEPT !.tags = Tail(@)])
                   /\ UNCHANGED <<posts, txPosts>>
              ELSE /\ TxWriteTags(r, UpdateTagCount(ViewTags(r), req[r].tags),
                                  Range(req[r].tags))
                   /\ TxWritePosts(r, UpdatePath(ViewPosts(r), req[r].id,
                                                 ImagePath(req[r].id)))
                   /\ Goto(r, [req[r] EXCEPT !.pc = "u_files", !.tags = <<>>])
    /\ UNCHANGED <<files, nextId, restores, sessions>>

\* The thumbnail is encoded, then futures::join!(img, tmb) writes both files;
\* an error of either returns InternalError and drops the open transaction.
UploadWriteFiles(r) ==
    /\ req[r].pc = "u_files"
    /\ \E encoded \in BOOLEAN, imgOk \in BOOLEAN, tmbOk \in BOOLEAN :
         LET sub == ImagePath(req[r].id)
             img == ImgPath(sub, req[r].id, req[r].filename)
             tmb == TmbPath(sub, req[r].id)
         IN  IF ~encoded
             THEN /\ Fail500(r)
                  /\ UNCHANGED files
             ELSE /\ files' = files \cup (IF imgOk THEN {img} ELSE {})
                                    \cup (IF tmbOk THEN {tmb} ELSE {})
                  /\ IF imgOk /\ tmbOk
                     THEN /\ Goto(r, [req[r] EXCEPT !.pc = "u_commit"])
                          /\ UNCHANGED <<posts, tags, txPosts, txTags>>
                     ELSE /\ req' = [req EXCEPT ![r] = IdleReq]
                          /\ out' = [Out("upload", "InternalError") EXCEPT
                                       !.imgOk = imgOk, !.tmbOk = tmbOk]
                          /\ Rollback(r)
    /\ UNCHANGED <<nextId, restores, sessions>>

\* trans.commit(), the last statement of the handler
UploadCommit(r) ==
    /\ req[r].pc = "u_commit"
    /\ \E ok \in BOOLEAN :
         IF ok
         THEN /\ Commit(r)
              /\ Answer(r, "Ok")
         ELSE Fail500(r)
    /\ UNCHANGED <<files, nextId, restores, sessions>>

Upload(r) ==
    \/ UploadStart(r)
    \/ UploadTagCount(r)
    \/ UploadWriteFiles(r)
    \/ UploadCommit(r)

----------------------------------------------------------------------------
(* delete_post *)

\* SELECT * FROM posts WHERE id=$1 AND is_deleted='false'
SelectPost(view, id) == id \in DOMAIN view /\ ~view[id].is_deleted

\* Fault: every user may delete every post
CanDelete_Anyone(row, uid) == TRUE

\* poster == user || matches!(perms, Perms::Moderator | Perms::Admin)
CanDelete(row, uid) == row.poster = uid \/ UserPerms[uid] \in {"Moderator", "Admin"}

\* The id check, pool.get(), conn.transaction(),
\* Post::select_can_delete(&trans, query.id, auth.uid) and the match on it
DeleteStart(r) ==
    /\ req[r].pc = "idle"
    /\ \E uid \in Users, id \in QueryIds, ok \in BOOLEAN :
         IF id < 0
         THEN AnswerAtOnce(r, "delete", "BadRequestData")
         ELSE IF ~ok
         THEN AnswerAtOnce(r, "delete", "InternalError")
         ELSE IF SelectPost(posts, id)
         THEN IF CanDelete(posts[id], uid)
              THEN Goto(r, [IdleReq EXCEPT !.op = "delete", !.pc = "d_update",
                                           !.id = id, !.uid = uid,
                                           !.tv = posts[id].tag_vector])
              ELSE Goto(r, [IdleReq EXCEPT !.op = "delete", !.pc = "d_commit",
                                           !.id = id, !.uid = uid, !.res = "Auth"])
         ELSE Goto(r, [IdleReq EXCEPT !.op = "delete", !.pc = "d_commit",
                                      !.id = id, !.uid = uid, !.res = "NotFound"])
    /\ UNCHANGED <<posts, tags, files, nextId, txPosts, txTags, restores, sessions>>

\* Fault: the UPDATE also overwrites the stored path
UpdateIsDeleted_ResetsPath(view, id, flag) ==
    IF id \in DOMAIN view
    THEN (id :> [view[id] EXCEPT !.is_deleted = flag, !.path = <<"x">>])
    ELSE EmptyFn

\* Post::update_is_deleted: UPDATE posts SET is_deleted=$1 WHERE id=$2
\* (the rows it writes, given the table as the statement sees it)
UpdateIsDeleted(view, id, flag) ==
    IF id \in DOMAIN view THEN (id :> [view[id] EXCEPT !.is_deleted = flag]) ELSE EmptyFn

\* Fault: the flag written on the pool connection, outside the transaction
DeleteUpdateWrite_OnPool(r) ==
    /\ posts' = UpdateIsDeleted(posts, req[r].id, TRUE) @@ posts
    /\ UNCHANGED txPosts

\* post.update_is_deleted(&trans, true): the write goes to the transaction
DeleteUpdateWrite(r) ==
    TxWritePosts(r, UpdateIsDeleted(ViewPosts(r), req[r].id, TRUE))

\* The statement waits for the row lock of another open transaction and then
\* acts on the row as that transaction left it
DeleteUpdate(r) ==
    /\ req[r].pc = "d_update"
    /\ ~PostLocked(r, req[r].id)
    /\ \E ok \in BOOLEAN :
         IF ~ok
         THEN Fail500(r)
         ELSE /\ DeleteUpdateWrite(r)
              /\ Goto(r, [req[r] EXCEPT !.pc = "d_tags"])
              /\ UNCHANGED <<tags, txTags>>
    /\ UNCHANGED <<files, nextId, restores, sessions>>

\* Tag::update_decrease_counts(&trans, &post.tag_vector.0)
DeleteDecrease(r) ==
    /\ req[r].pc = "d_tags"
    /\ \A t \in req[r].tv \cap DOMAIN ViewTags(r) : ~TagLocked(r, t)
    /\ \E ok \in BOOLEAN :
         IF ~ok
         THEN Fail500(r)
         ELSE /\ TxWriteTags(r, UpdateDecreaseCounts(ViewTags(r), req[r].tv),
                             req[r].tv \cap DOMAIN ViewTags(r))
              /\ Goto(r, [req[r] EXCEPT !.pc = "d_commit", !.res = "Ok"])
              /\ UNCHANGED <<posts, txPosts>>
    /\ UNCHANGED <<files, nextId, restores, sessions>>

\* trans.commit(), then the response chosen by the match
DeleteCommit(r) ==
    /\ req[r].pc = "d_commit"
    /\ \E ok \in BOOLEAN :
         IF ok
         THEN /\ Commit(r)
              /\ Answer(r, req[r].res)
         ELSE Fail500(r)
    /\ UNCHANGED <<files, nextId, restores, sessions>>

Delete(r) ==
    \/ DeleteStart(r)
    \/ DeleteUpdate(r)
    \/ DeleteDecrease(r)
    \/ DeleteCommit(r)

----------------------------------------------------------------------------
(* delete_purge_posts *)

\* Fault: the listing without its WHERE
SelectIsDeleted_AllRows ==
    { [id |-> id, filename |-> posts[id].filename, path |-> posts[id].path] :
        id \in DOMAIN posts }

\* SELECT * FROM posts WHERE is_deleted='true': the rows, of which the loop
\* uses id, path and filename
SelectIsDeleted ==
    { [id |-> id, filename |-> posts[id].filename, path |-> posts[id].path] :
        id \in {i \in DOMAIN posts : posts[i].is_deleted} }

\* Fault: the result of the DELETE taken as true whatever it matched
DeleteChecked_AlwaysTrue(id) == TRUE

\* Fault: the DELETE without its is_deleted condition
DeleteChecked_AnyRow(id) == id \in DOMAIN posts

\* DELETE FROM posts WHERE id=$1 AND is_deleted = 'true': the row it deletes
DeleteChecked(id) == id \in DOMAIN posts /\ posts[id].is_deleted

\* The next turn of the loop, or the 200 response after the last
PurgeNext(r, todo, skipped) ==
    IF todo = {}
    THEN /\ req' = [req EXCEPT ![r] = IdleReq]
         /\ out' = Out("purge", "Ok")
    ELSE Goto(r, [req[r] EXCEPT !.pc = "p_loop", !.id = 0, !.todo = todo,
                                !.skipped = skipped])

\* Fault: a check that lets every principal through
MayPurge_Anyone(perms) == TRUE

\* if auth.perms != Perms::Admin { return Err(APIError::Auth) }
MayPurge(perms) == perms = "Admin"

\* The Admin check, pool.get() and Post::select_is_deleted(&conn)
PurgeStart(r) ==
    /\ req[r].pc = "idle"
    /\ \E uid \in Users, ok \in BOOLEAN :
         IF ~MayPurge(UserPerms[uid])
         THEN AnswerAtOnce(r, "purge", "Auth")
         ELSE IF ~ok
         THEN AnswerAtOnce(r, "purge", "InternalError")
         ELSE IF SelectIsDeleted = {}
         THEN AnswerAtOnce(r, "purge", "Ok")
         ELSE Goto(r, [IdleReq EXCEPT !.op = "purge", !.pc = "p_loop", !.uid = uid,
                                      !.todo = SelectIsDeleted])
    /\ UNCHANGED <<posts, tags, files, nextId, txPosts, txTags, restores, sessions>>

\* One turn of the loop up to the file removal:
\* Post::Partial(post.id).delete_post_checked(&conn), `continue` on false.
\* The rows come in the order the store returns them, which is any order; the
\* DELETE waits for the row lock of an open transaction.
PurgeDelete(r) ==
    /\ req[r].pc = "p_loop"
    /\ \E post \in req[r].todo, ok \in BOOLEAN :
         /\ ~PostLockedByAny(post.id)
         /\ IF ~ok
            THEN /\ Answer(r, "InternalError")
                 /\ UNCHANGED posts
            ELSE IF DeleteChecked(post.id)
            THEN /\ posts' = Restrict(posts, DOMAIN posts \ {post.id})
                 /\ Goto(r, [req[r] EXCEPT !.pc = "p_files", !.id = post.id,
                                           !.removed = @ \cup {post.id}])
            ELSE /\ PurgeNext(r, req[r].todo \ {post}, req[r].skipped \cup {post.id})
                 /\ UNCHANGED posts
    /\ UNCHANGED <<tags, files, nextId, txPosts, txTags, restores, sessions>>

\* Fault: a removal that leaves the file
RemoveFile_KeepsFile(fs, path, ioOk) == fs

\* Fault: a removal that takes every file below the same directory
RemoveFile_WholeTree(fs, path, ioOk) ==
    IF path \in fs /\ ioOk THEN {f \in fs : f[1] # path[1]} ELSE fs

\* fs::remove_file: Err on a missing file, or on an I/O error
RemoveFile(fs, path, ioOk) == IF path \in fs /\ ioOk THEN fs \ {path} ELSE fs
RemoveFileOk(fs, path, ioOk) == path \in fs /\ ioOk

\* The rest of the turn: format_paths on the listed row, both removals joined,
\* try500! on each
PurgeRemoveFiles(r) ==
    /\ req[r].pc = "p_files"
    /\ \E post \in {p \in req[r].todo : p.id = req[r].id},
          imgIo \in BOOLEAN, tmbIo \in BOOLEAN :
         LET img == ImgPath(post.path, post.id, post.filename)
             tmb == TmbPath(post.path, post.id)
         IN  /\ files' = RemoveFile(RemoveFile(files, img, imgIo), tmb, tmbIo)
             /\ IF RemoveFileOk(files, img, imgIo) /\ RemoveFileOk(files, tmb, tmbIo)
                THEN PurgeNext(r, req[r].todo \ {post}, req[r].skipped)
                ELSE /\ req' = [req EXCEPT ![r] = IdleReq]
                     /\ out' = [Out("purge", "InternalError") EXCEPT
                                  !.imgOk = RemoveFileOk(files, img, imgIo),
                                  !.tmbOk = RemoveFileOk(files, tmb, tmbIo)]
    /\ UNCHANGED <<posts, tags, nextId, txPosts, txTags, restores, sessions>>

Purge(r) ==
    \/ PurgeStart(r)
    \/ PurgeDelete(r)
    \/ PurgeRemoveFiles(r)

----------------------------------------------------------------------------
(* Post::Partial(id).update_is_deleted(&conn, false): restore.  No route     *)
(* calls it; it is the Post Record's operation, run on a pool connection.    *)

\* Restore calls in one run
MaxRestores == 1

Restore ==
    /\ restores < MaxRestores
    /\ \E id \in {i \in DOMAIN posts : posts[i].is_deleted} :
         /\ ~PostLockedByAny(id)
         /\ posts' = UpdateIsDeleted(posts, id, FALSE) @@ posts
    /\ restores' = restores + 1
    /\ out' = NoOut
    /\ UNCHANGED <<tags, files, nextId, req, txPosts, txTags, sessions>>

----------------------------------------------------------------------------
(* The routed handlers: POST /post, DELETE /post, DELETE /purge *)

Next ==
    \/ \E r \in Reqs : Upload(r)
    \/ \E r \in Reqs : Delete(r)
    \/ \E r \in Reqs : Purge(r)

Spec == Init /\ [][Next]_vars

\* Upload and user delete requests only
NextUD ==
    \/ \E r \in Reqs : Upload(r)
    \/ \E r \in Reqs : Delete(r)

SpecUD == Init /\ [][NextUD]_vars

\* The handlers and restore
NextR ==
    \/ Next
    \/ Restore

SpecR == Init /\ [][NextR]_vars

----------------------------------------------------------------------------
(* Properties of the lifecycle *)

\* The post a file below the storage root belongs to: the id its name starts with
FilesOfIn(fs, id) == {f \in fs : f[3][1] = id}

\* Posts that hold tag t and are neither soft-deleted nor purged
ActiveWith(t) == {id \in DOMAIN posts : ~posts[id].is_deleted /\ t \in posts[id].tag_vector}

\* The stored counter of a tag; a tag without a row counts 0
Counter(tbl, t) == IF t \in DOMAIN tbl THEN tbl[t] ELSE 0

AllTags == DOMAIN tags \cup UNION {posts[id].tag_vector : id \in DOMAIN posts}

\* C1: after any sequence of upload and user delete requests, the counter of
\* every tag equals the number of Active posts whose tag vector holds that tag.
C1_CounterEqualsActivePosts ==
    \A t \in AllTags : Counter(tags, t) = Cardinality(ActiveWith(t))

\* C3: while an upload's transaction has not committed, neither its image file
\* nor its thumbnail file is on disk.
C3_NoFileBeforeCommit ==
    \A r \in Reqs :
        (req[r].op = "upload" /\ req[r].pc # "idle")
            => FilesOfIn(files, req[r].id) = {}

\* C4: an upload whose image write or thumbnail write failed reports
\* InternalError and its row, with the counter increments, stays committed.
C4_WriteFailureKeepsRow ==
    [][\A r \in Reqs :
        (/\ req[r].pc = "u_files"
         /\ req'[r].pc = "idle"
         /\ out'.op = "upload"
         /\ (~out'.imgOk \/ ~out'.tmbOk))
        => (/\ out'.res = "InternalError"
            /\ req[r].id \in DOMAIN posts'
            /\ \A t \in txPosts[r][req[r].id].tag_vector :
                   Counter(tags', t) > Counter(tags, t))]_vars

\* C2: a post row leaves the posts table only while its is_deleted flag is
\* set; a row that is Active at the time a step runs (never soft-deleted, or
\* restored after a purge run listed it) is not removed by that step.
C2_RemovedOnlyWhenFlagSet ==
    [][\A id \in DOMAIN posts :
          id \notin DOMAIN posts' => posts[id].is_deleted]_vars

\* A purge run that listed a post, found it restored and passed over it
C2_RestoredPostSkipped ==
    \E r \in Reqs :
        /\ req[r].op = "purge"
        /\ \E id \in req[r].skipped : id \in DOMAIN posts /\ ~posts[id].is_deleted

\* The step is one of upload request r, which is in flight before it
UploadStepOf(r) == req[r].op = "upload" /\ req'[r] # req[r]

\* The step is the commit of upload request r, answered 200
UploadCommitted(r) ==
    /\ req[r].pc = "u_commit"
    /\ req'[r].pc = "idle"
    /\ out' = Out("upload", "Ok")

\* C5: an upload is all-or-nothing in the committed tables.  The step that
\* commits it makes the post row, the counter increments of its tags and its
\* final path visible together; every other step of an upload, and every
\* upload that answers with an error, leaves the committed posts and tags as
\* they were, with no row of the upload's id.
C5_UploadAllOrNothing ==
    [][/\ \A r \in Reqs :
            UploadStepOf(r) =>
                IF UploadCommitted(r)
                THEN LET id == req[r].id
                     IN  /\ id \notin DOMAIN posts
                         /\ id \in DOMAIN posts'
                         /\ posts'[id].path = ImagePath(id)
                         /\ ~posts'[id].is_deleted
                         /\ \A o \in DOMAIN posts : o \in DOMAIN posts' /\ posts'[o] = posts[o]
                         /\ \A t \in AllTags' :
                               IF t \in posts'[id].tag_vector
                               THEN Counter(tags', t) > Counter(tags, t)
                               ELSE Counter(tags', t) = Counter(tags, t)
                ELSE /\ posts' = posts
                     /\ tags' = tags
                     /\ req[r].id \notin DOMAIN posts'
       /\ out'.op = "upload" /\ out'.res # "Ok" => posts' = posts /\ tags' = tags
       /\ \A r \in Reqs :
            req[r].pc = "idle" /\ req'[r].op = "upload" => posts' = posts /\ tags' = tags
      ]_vars

\* An upload that inserted its row and then failed has left nothing behind in
\* the tables
C5_FailedUploadLeftNothing ==
    /\ out = Out("upload", "InternalError")
    /\ nextId > FirstId
    /\ posts = EmptyFn
    /\ tags = EmptyFn
    /\ \A r \in Reqs : req[r].pc = "idle"

\* The step is one of delete request r, which is in flight before it
DeleteStepOf(r) == req[r].op = "delete" /\ req'[r] # req[r]

\* The step is the commit of delete request r after it set the flag and
\* decremented the counters
DeleteCommitted(r) ==
    /\ req[r].pc = "d_commit"
    /\ req[r].res = "Ok"
    /\ req'[r].pc = "idle"
    /\ out' = Out("delete", "Ok")

\* C6: a user delete sets the flag and decrements the counters in one
\* transaction.  The committed flag of a post goes from unset to set only in
\* the commit step of a delete of that post, and in that very step the
\* counter of each tag of its tag vector goes down by one; every other step
\* of a delete request, a failed decrement included, leaves the committed
\* posts and tags as they were.
C6_DeleteAtomic ==
    [][/\ \A r \in Reqs :
            DeleteStepOf(r) =>
                IF DeleteCommitted(r)
                THEN /\ DOMAIN posts' = DOMAIN posts
                     /\ \A o \in DOMAIN posts \ {req[r].id} : posts'[o] = posts[o]
                     /\ req[r].id \in DOMAIN posts => posts'[req[r].id].is_deleted
                     /\ DOMAIN tags' = DOMAIN tags
                     /\ \A t \in DOMAIN tags :
                           tags'[t] = IF t \in req[r].tv THEN tags[t] - 1 ELSE tags[t]
                ELSE posts' = posts /\ tags' = tags
       /\ \A id \in DOMAIN posts \cap DOMAIN posts' :
            (~posts[id].is_deleted /\ posts'[id].is_deleted) =>
                \E r \in Reqs :
                    /\ DeleteCommitted(r)
                    /\ req[r].id = id
                    /\ req[r].tv = posts[id].tag_vector
                    /\ \A t \in req[r].tv : Counter(tags', t) = Counter(tags, t) - 1
      ]_vars

\* A delete has committed: the flag is set and the counters of the post's
\* tags are down
C6_DeleteCommittedBoth ==
    /\ out = Out("delete", "Ok")
    /\ \E id \in DOMAIN posts :
          /\ posts[id].is_deleted
          /\ \A t \in posts[id].tag_vector : Counter(tags, t) = 0
          /\ posts[id].tag_vector # {}

\* Two rows that differ in nothing but the soft-delete flag
SameButFlag(a, b) == [a EXCEPT !.is_deleted = b.is_deleted] = b

\* C7: soft_delete and restore change only the soft-delete flag.  The UPDATE
\* of a delete request in its transaction, the commit that publishes it, and
\* restore leave every file on disk, keep every row, and keep the stored path,
\* filename, tag vector and poster of every row.
C7_FlagOnly ==
    [][/\ \A r \in Reqs :
            (req[r].pc = "d_update" /\ req'[r].pc = "d_tags") =>
                LET before == ViewPosts(r)
                    after == txPosts'[r] @@ posts'
                IN  /\ files' = files
                    /\ DOMAIN after = DOMAIN before
                    /\ \A id \in DOMAIN before :
                          /\ SameButFlag(before[id], after[id])
                          /\ id # req[r].id => after[id] = before[id]
                    /\ req[r].id \in DOMAIN before => after[req[r].id].is_deleted
       /\ \A r \in Reqs :
            DeleteStepOf(r) =>
                /\ files' = files
                /\ DOMAIN posts' = DOMAIN posts
                /\ \A id \in DOMAIN posts : SameButFlag(posts[id], posts'[id])
       /\ restores' # restores =>
                /\ files' = files
                /\ tags' = tags
                /\ DOMAIN posts' = DOMAIN posts
                /\ \A id \in DOMAIN posts : SameButFlag(posts[id], posts'[id])
                /\ \E id \in DOMAIN posts : posts[id].is_deleted /\ ~posts'[id].is_deleted
      ]_vars

\* A post that was soft-deleted and restored: Active, with its files, path
\* and tag vector
C7_RestoredPostIntact ==
    /\ restores = 1
    /\ \E id \in DOMAIN posts :
          /\ ~posts[id].is_deleted
          /\ posts[id].tag_vector # {}
          /\ \A t \in posts[id].tag_vector : Counter(tags, t) = 0
          /\ posts[id].path = ImagePath(id)
          /\ ImgPath(posts[id].path, id, posts[id].filename) \in files
          /\ TmbPath(posts[id].path, id) \in files

\* C8: purge is idempotent per post.  For a listed post whose row is already
\* gone, delete_post_checked is false; the turn of the loop that handles it
\* removes no file and no row, never goes to the file removal, and the run
\* goes on to its next post (or to its 200) with the post passed over.
C8_PurgeIdempotent ==
    [][\A r \in Reqs : \A post \in req[r].todo :
          (req[r].pc = "p_loop" /\ post.id \notin DOMAIN posts /\ req'[r] # req[r]) =>
              /\ ~DeleteChecked(post.id)
              /\ ~(req'[r].pc = "p_files" /\ req'[r].id = post.id)
              /\ post.id \notin req'[r].removed
              /\ (req'[r].pc = "p_loop" /\ post \notin req'[r].todo) =>
                    /\ post.id \in req'[r].skipped
                    /\ files' = files
                    /\ posts' = posts
                    /\ out' = NoOut
              /\ (req'[r].pc = "idle" /\ req[r].todo = {post}) =>
                    /\ files' = files
                    /\ posts' = posts
                    /\ out'.res \in {"Ok", "InternalError"}
      ]_vars

\* A run has passed over a post whose row was gone, and goes on
C8_GonePostPassedOver ==
    \E r \in Reqs :
        /\ req[r].pc = "p_loop"
        /\ \E id \in req[r].skipped : id \notin DOMAIN posts /\ FilesOfIn(files, id) = {}

\* C9: of two purge runs over the same soft-deleted posts, one removes the
\* row of a post and goes to its files, the other passes over it.  No post
\* is removed by both runs; a post a run has passed over or removed has no
\* row left; and a run that goes to remove files finds both files of its
\* post on disk, so the other run is never the cause of a failed removal.
C9_OneRunRemoves ==
    /\ \A r1 \in Reqs : \A r2 \in Reqs \ {r1} :
          req[r1].removed \cap req[r2].removed = {}
    /\ \A r \in Reqs :
          /\ req[r].removed \cap req[r].skipped = {}
          /\ \A id \in req[r].removed \cup req[r].skipped : id \notin DOMAIN posts
          /\ req[r].pc = "p_files" =>
                \A post \in {p \in req[r].todo : p.id = req[r].id} :
                    /\ ImgPath(post.path, post.id, post.filename) \in files
                    /\ TmbPath(post.path, post.id) \in files

\* Two runs in flight: one has passed over a post the other has removed
C9_OtherRunSkipped ==
    \E r1 \in Reqs : \E r2 \in Reqs \ {r1} :
        /\ req[r1].op = "purge"
        /\ req[r2].op = "purge"
        /\ req[r1].skipped \cap req[r2].removed # {}

\* The posts a purge run in flight listed
Listed(r) == {p.id : p \in req[r].todo} \cup req[r].removed \cup req[r].skipped

\* The step is one of purge run r
PurgeStepOf(r) ==
    \/ req[r].op = "purge" /\ req'[r] # req[r]
    \/ req[r].pc = "idle" /\ req'[r].op = "purge"

\* The step ends purge run r with its 200
PurgeCompleted(r) ==
    /\ req[r].op = "purge"
    /\ req'[r].pc = "idle"
    /\ out' = Out("purge", "Ok")

\* C10 as stated: when a purge run completes successfully, the row, the image
\* and the thumbnail of every soft-deleted post it listed are gone.
C10_ListedPostAllGone ==
    [][\A r \in Reqs :
          PurgeCompleted(r) =>
              \A id \in Listed(r) :
                  id \notin DOMAIN posts' /\ FilesOfIn(files', id) = {}]_vars

\* C10, amended: when a purge run completes successfully, the row of every
\* soft-deleted post it listed is gone, and the image and the thumbnail of
\* every post whose row this run removed are gone; no step of a purge run
\* changes an Active post, a file of an Active post, or a tag counter.
C10_RemovedPostAllGone ==
    [][\A r \in Reqs :
          /\ PurgeCompleted(r) =>
                \A id \in Listed(r) :
                    /\ id \notin DOMAIN posts'
                    /\ id \in req[r].removed => FilesOfIn(files', id) = {}
          /\ PurgeStepOf(r) =>
                /\ tags' = tags
                /\ \A id \in DOMAIN posts :
                      ~posts[id].is_deleted =>
                          /\ id \in DOMAIN posts'
                          /\ posts'[id] = posts[id]
                          /\ FilesOfIn(files', id) = FilesOfIn(files, id)
      ]_vars

\* A run has completed: a post that was committed with tag b and soft-deleted
\* has neither row nor file, and an Active post still has its row and files
C10_PurgedAndActive ==
    /\ out = Out("purge", "Ok")
    /\ TagB \in DOMAIN tags
    /\ tags[TagB] = 0
    /\ \E id \in PostIds :
          /\ id < nextId
          /\ id \notin DOMAIN posts
          /\ FilesOfIn(files, id) = {}
    /\ \E id \in DOMAIN posts :
          /\ ~posts[id].is_deleted
          /\ TagB \notin posts[id].tag_vector
          /\ ImgPath(posts[id].path, id, posts[id].filename) \in files
          /\ TmbPath(posts[id].path, id) \in files

----------------------------------------------------------------------------
(* Post::select_can_delete, on its own *)

\* The uid of a session (kept apart from the users table, in the session
\* store): a user of the table, or one whose row is not there
SessionUids == Users \cup {0}

\* query_opt of SELECT * FROM posts WHERE id=$1 AND is_deleted='false'
PostLookup(view, id) ==
    [rows |-> IF SelectPost(view, id) THEN {id} ELSE {}, ok |-> TRUE]

\* query_one of SELECT * FROM users WHERE id=$1: an error unless one row
UserLookup(uid) == [rows |-> {uid} \cap Users, ok |-> uid \in Users]

\* Post::select_can_delete: futures::try_join!(row1, row2) gives the error of
\* the lookup that fails, whichever lookup completes first, and both rows
\* otherwise; then the match on the post row
SelectCanDelete(view, id, uid, first) ==
    LET row1 == PostLookup(view, id)
        row2 == UserLookup(uid)
        a == IF first = "post" THEN row1 ELSE row2
        b == IF first = "post" THEN row2 ELSE row1
    IN  IF ~a.ok THEN [kind |-> "Err"]
        ELSE IF ~b.ok THEN [kind |-> "Err"]
        ELSE IF row1.rows = {} THEN [kind |-> "None"]
        ELSE [id |-> id, kind |-> "Some", allowed |-> CanDelete(view[id], uid)]

\* A committed row as an upload leaves it, with its flag
StoredRow(id, poster, deleted) ==
    [filename |-> "f.png", poster |-> poster, tag_vector |-> {TagA},
     path |-> ImagePath(id), is_deleted |-> deleted, create_date |-> id, score |-> 0]

\* Tables of posts after some uploads by users 1 and 2 and some deletes
StoredTables ==
    UNION { [S -> {StoredRow(0, u, d) : u \in {1, 2}, d \in BOOLEAN}] : S \in SUBSET PostIds }

\* The store with table `tbl` committed and no request in flight
StoreWith(tbl) ==
    /\ posts = [id \in DOMAIN tbl |->
                  [tbl[id] EXCEPT !.path = ImagePath(id), !.create_date = id]]
    /\ tags = (TagA :> Cardinality({id \in DOMAIN tbl : ~tbl[id].is_deleted}))
    /\ files = UNION { {ImgPath(ImagePath(id), id, "f.png"), TmbPath(ImagePath(id), id)} :
                         id \in DOMAIN tbl }
    /\ nextId = FirstId + MaxPosts
    /\ req = [r \in Reqs |-> IdleReq]
    /\ txPosts = [r \in Reqs |-> EmptyFn]
    /\ txTags = [r \in Reqs |-> EmptyFn]
    /\ out = NoOut
    /\ restores = 0
    /\ sessions = EmptyFn

InitStored == \E tbl \in StoredTables : StoreWith(tbl)

\* One call of select_can_delete on a pool connection
CallSelectCanDelete ==
    /\ \E id \in PostIds, uid \in SessionUids, first \in {"post", "user"} :
         out' = [id |-> id, op |-> "select_can_delete",
                 res |-> SelectCanDelete(posts, id, uid, first), uid |-> uid,
                 first |-> first]
    /\ UNCHANGED <<posts, tags, files, nextId, req, txPosts, txTags, restores, sessions>>

NextAuth == CallSelectCanDelete

SpecAuth == InitStored /\ [][NextAuth]_vars

\* C11: select_can_delete returns None iff the post does not exist or is
\* soft-deleted, whether or not the requesting user exists, and otherwise
\* returns the post with allowed = true iff the user is the poster or has
\* permission Moderator or Admin; it never returns an error for a missing
\* row.
C11_CanDeleteResult ==
    out.op = "select_can_delete" =>
        LET exists == out.id \in DOMAIN posts /\ ~posts[out.id].is_deleted
        IN  /\ out.res.kind = "None" <=> ~exists
            /\ exists =>
                  /\ out.res.kind = "Some"
                  /\ out.res.allowed <=>
                        \/ posts[out.id].poster = out.uid
                        \/ /\ out.uid \in Users
                           /\ UserPerms[out.uid] \in {"Moderator", "Admin"}

----------------------------------------------------------------------------
(* get_post *)

\* The response of a handler that reads: the handler, the APIError or
\* "Ok"/"NotFound", the id asked for and the rows of the body
ReadOut(op, res, id, body) == [id |-> id, op |-> op, res |-> res, body |-> body]

\* get_post: the id check, pool.get(), Post::select_post(&conn, query.id)
\* and the match on the row.  It runs on a pool connection of its own and
\* reads the committed rows.
GetPost ==
    /\ \E id \in QueryIds, ok \in BOOLEAN :
         out' = IF id < 0 THEN ReadOut("get_post", "BadRequestData", id, {})
                ELSE IF ~ok THEN ReadOut("get_post", "InternalError", id, {})
                ELSE IF SelectPost(posts, id)
                     THEN ReadOut("get_post", "Ok", id, {posts[id]})
                     ELSE ReadOut("get_post", "NotFound", id, {})
    /\ UNCHANGED <<posts, tags, files, nextId, req, txPosts, txTags, restores, sessions>>

\* Uploads, deletes and purge runs one at a time
NextOne ==
    \/ Upload(1)
    \/ Delete(1)
    \/ Purge(1)

\* One writer at a time, and fetches of a post at any moment
NextFetch ==
    \/ NextOne
    \/ GetPost

SpecFetch == Init /\ [][NextFetch]_vars

\* C12: unless the store itself fails, fetching a post by id answers with the
\* post iff a committed row with that id exists and is not soft-deleted, and
\* with "not found" for every other id: negative, nonexistent or soft-deleted.
C12_FetchFoundOrNotFound ==
    (out.op = "get_post" /\ out.res # "InternalError") =>
        IF out.id \in DOMAIN posts /\ ~posts[out.id].is_deleted
        THEN out.res = "Ok" /\ out.body = {posts[out.id]}
        ELSE out.res = "NotFound"

----------------------------------------------------------------------------
(* get_search and Post::select_fulltext_tags *)

\* if tags.len() > 10, if query.limit > 50, fn default_limit
MaxTags == 10
MaxLimit == 50
DefaultLimit == 20

\* tags[i].chars().any(|c| matches!(c, ' ' | '|' | '(' | ')'))
BadSearchToken(t) == \E i \in DOMAIN t : t[i] \in {" ", "|", "(", ")"}

\* Vec::remove(i), i counted from 1
RemoveAt(seq, i) == SubSeq(seq, 1, i - 1) \o SubSeq(seq, i + 1, Len(seq))

\* The validation loop of get_search: `for i in 0..tags.len()` runs over the
\* length the list had at the start, while tags.remove(i) shortens the list;
\* tags[i] past the end of the shortened list is an index panic.
RECURSIVE ValidateLoop(_, _, _)
ValidateLoop(tokens, i, n) ==
    IF i > n THEN [tags |-> tokens, kind |-> "Ok"]
    ELSE IF i > Len(tokens) THEN [tags |-> tokens, kind |-> "Panic"]
    ELSE IF BadSearchToken(tokens[i]) THEN [tags |-> tokens, kind |-> "BadTags"]
    ELSE IF tokens[i] = <<>> THEN ValidateLoop(RemoveAt(tokens, i), i + 1, n)
    ELSE ValidateLoop(tokens, i + 1, n)

ValidateSearchTags(tokens) == ValidateLoop(tokens, 1, Len(tokens))

\* String::pop
Pop(str) == IF str = <<>> THEN str ELSE SubSeq(str, 1, Len(str) - 1)

\* ts_query_builder: &tag[0..1] panics on an empty tag
RECURSIVE BuilderLoop(_, _, _)
BuilderLoop(tokens, include, exclude) ==
    IF tokens = <<>>
    THEN [kind |-> "Ok", include |-> Pop(include), exclude |-> Pop(exclude)]
    ELSE LET tag == Head(tokens)
         IN  IF tag = <<>> THEN [kind |-> "Panic", include |-> include, exclude |-> exclude]
             ELSE IF Head(tag) = "!"
             THEN BuilderLoop(Tail(tokens), include, exclude \o Tail(tag) \o <<",">>)
             ELSE BuilderLoop(Tail(tokens), include \o tag \o <<",">>, exclude)

TsQueryBuilder(tokens) == BuilderLoop(tokens, <<>>, <<>>)

\* plainto_tsquery('tag_parser', $1): the conjunction of the lexemes of the
\* string; tag_vector @@ query holds when the vector has every lexeme of the
\* query, and for no vector when the query has no lexeme
PlainToTsquery(str) == Tokens(str, <<>>)
Matches(tv, str) == PlainToTsquery(str) # {} /\ PlainToTsquery(str) \subseteq tv

\* Fault: the ORDER BY lists without the id column
ToSql_NoTieBreak(sorting) ==
    CASE sorting = "da" -> << <<"create_date", "ASC">> >>
      [] sorting = "dd" -> << <<"create_date", "DESC">> >>
      [] sorting = "va" -> << <<"score", "ASC">> >>
      [] sorting = "vd" -> << <<"score", "DESC">> >>

\* PostSorting::to_sql: the ORDER BY list, <<column, direction>> in order
ToSql(sorting) ==
    CASE sorting = "da" -> << <<"create_date", "ASC">>, <<"id", "ASC">> >>
      [] sorting = "dd" -> << <<"create_date", "DESC">>, <<"id", "DESC">> >>
      [] sorting = "va" -> << <<"score", "ASC">>, <<"id", "ASC">> >>
      [] sorting = "vd" -> << <<"score", "DESC">>, <<"id", "DESC">> >>

Sortings == {"da", "dd", "va", "vd"}

Column(view, id, col) == IF col = "id" THEN id ELSE view[id][col]

\* Row a sorts strictly before row b under the ORDER BY list
RECURSIVE SortsBefore(_, _, _, _)
SortsBefore(view, a, b, orderBy) ==
    IF orderBy = <<>> THEN FALSE
    ELSE LET col == Head(orderBy)[1]
             asc == Head(orderBy)[2] = "ASC"
             x == Column(view, a, col)
             y == Column(view, b, col)
         IN  IF x = y THEN SortsBefore(view, a, b, Tail(orderBy))
             ELSE IF asc THEN x < y ELSE x > y

\* The orders in which the store may return the rows S under ORDER BY:
\* every arrangement in which no row stands after one it sorts before
Orderings(view, S, orderBy) ==
    { seq \in [1..Cardinality(S) -> S] :
        /\ \A i, j \in 1..Cardinality(S) : i # j => seq[i] # seq[j]
        /\ \A i, j \in 1..Cardinality(S) :
              i < j => ~SortsBefore(view, seq[j], seq[i], orderBy) }

\* OFFSET n LIMIT m
OffsetLimit(seq, offset, limit) ==
    SubSeq(seq, offset + 1, IF offset + limit < Len(seq) THEN offset + limit ELSE Len(seq))

\* Fault: the WHERE clauses without is_deleted='false'
Selected_AnyRow(view, tokens) ==
    LET q == TsQueryBuilder(tokens)
    IN  IF tokens = <<>> THEN DOMAIN view
        ELSE IF q.exclude = <<>>
        THEN {id \in DOMAIN view : Matches(view[id].tag_vector, q.include)}
        ELSE IF q.include = <<>>
        THEN {id \in DOMAIN view : ~Matches(view[id].tag_vector, q.exclude)}
        ELSE {id \in DOMAIN view : /\ Matches(view[id].tag_vector, q.include)
                                   /\ ~Matches(view[id].tag_vector, q.exclude)}

\* The WHERE clause select_fulltext_tags / select_fulltext_empty choose
Selected(view, tokens) ==
    LET active == {id \in DOMAIN view : ~view[id].is_deleted}
        q == TsQueryBuilder(tokens)
    IN  IF tokens = <<>> THEN active
        ELSE IF q.exclude = <<>>
        THEN {id \in active : Matches(view[id].tag_vector, q.include)}
        ELSE IF q.include = <<>>
        THEN {id \in active : ~Matches(view[id].tag_vector, q.exclude)}
        ELSE {id \in active : /\ Matches(view[id].tag_vector, q.include)
                              /\ ~Matches(view[id].tag_vector, q.exclude)}

\* Post::select_fulltext_tags: the results the store may give, each a
\* sequence of ids (of the rows it deserialises), or a panic of the builder
SelectFulltextTags(view, tokens, page, limit, sorting) ==
    IF tokens # <<>> /\ TsQueryBuilder(tokens).kind = "Panic"
    THEN {[rows |-> <<>>, kind |-> "Panic"]}
    ELSE { [rows |-> OffsetLimit(seq, page * limit, limit), kind |-> "Ok"] :
             seq \in Orderings(view, Selected(view, tokens), ToSql(sorting)) }

\* A query string of /search: the tokens of `tags`, `page`, `limit` (<<>>
\* when the client sends none) and `sort`
SearchQuery(tokens, page, limit, sorting) ==
    [tags |-> tokens, limit |-> limit, page |-> page, sort |-> sorting]

\* Fault: a request without a limit is given the largest limit
LimitOf_NoDefault(q) == IF q.limit = <<>> THEN MaxLimit ELSE q.limit[1]

\* #[serde(default = "default_limit")]
LimitOf(q) == IF q.limit = <<>> THEN DefaultLimit ELSE q.limit[1]

\* A response of get_search: the APIError, "Ok", "NotFound" or "Panic", the
\* query, the call of select_fulltext_tags it made (<<>> when none) and the
\* ids of the rows of the body, in order
SearchOut(res, q, store, body) ==
    [op |-> "get_search", res |-> res, body |-> body, q |-> q, store |-> store]

\* get_search: the responses it may give on the committed rows `view`; `ok`
\* is whether the pool hands out a connection
GetSearch(view, q, ok) ==
    LET v == ValidateSearchTags(q.tags)
        call == [tags |-> v.tags, limit |-> LimitOf(q), page |-> q.page, sort |-> q.sort]
    IN  IF v.kind = "Panic" THEN {SearchOut("Panic", q, <<>>, <<>>)}
        ELSE IF v.kind = "BadTags" THEN {SearchOut("BadTags", q, <<>>, <<>>)}
        ELSE IF Len(v.tags) > MaxTags THEN {SearchOut("TagLimit", q, <<>>, <<>>)}
        ELSE IF LimitOf(q) > MaxLimit THEN {SearchOut("PageSize", q, <<>>, <<>>)}
        ELSE IF ~ok THEN {SearchOut("InternalError", q, <<>>, <<>>)}
        ELSE { IF res.kind = "Panic" THEN SearchOut("Panic", q, <<>>, <<>>)
               ELSE IF res.rows = <<>> THEN SearchOut("NotFound", q, <<call>>, <<>>)
               ELSE SearchOut("Ok", q, <<call>>, res.rows) :
                 res \in SelectFulltextTags(view, v.tags, q.page, LimitOf(q), q.sort) }

\* One /search request with a query of `queries`; it reads the committed rows
SearchOver(queries) ==
    /\ \E q \in queries, ok \in BOOLEAN :
         \E resp \in GetSearch(posts, q, ok) : out' = resp
    /\ UNCHANGED <<posts, tags, files, nextId, req, txPosts, txTags, restores, sessions>>

\* Token lists of search requests: none, one tag, one exclusion, both, and
\* tokens with a reserved character
SearchTokenLists ==
    { <<>>, <<TagA>>, <<TagB>>, << <<"!", "a">> >>, << <<"!", "b">> >>,
      <<TagA, <<"!", "b">> >>, <<TagB, <<"!", "a">> >>,
      << <<"a", " ", "b">> >>, <<TagA, <<"a", "|", "b">> >>,
      << <<"(", "a">> >>, << <<"a", ")">>, TagB >> }

\* Searches for the first page, with the default limit and order
SearchTags ==
    SearchOver({SearchQuery(tokens, 0, <<>>, "dd") : tokens \in SearchTokenLists})

\* Tag lists of uploads, those with a space or a reserved character inside a
\* tag and a tag of white space only among them
WideTagLists ==
    TagLists \cup { << <<"a", " ", "b">> >>, << <<"a", "|", "b">> >>,
                    << <<"(", "a", ")">> >>, << <<" ">>, TagB >> }

UploadStartWide(r) == UploadStartWith(r, WideTagLists)

UploadWide(r) ==
    \/ UploadStartWide(r)
    \/ UploadTagCount(r)
    \/ UploadWriteFiles(r)
    \/ UploadCommit(r)

\* One writer at a time, and searches at any moment
NextSearch ==
    \/ UploadWide(1)
    \/ Delete(1)
    \/ Purge(1)
    \/ SearchTags

SpecSearch == Init /\ [][NextSearch]_vars

\* The tags a token list asks for, and the tags it excludes
Included(tokens) == {t \in Range(tokens) : Head(t) # "!"}
Excluded(tokens) == {Tail(t) : t \in {x \in Range(tokens) : Head(x) = "!"}}

\* A token list a client may search with: no token is empty or holds a
\* reserved character
ValidTokens(tokens) == \A t \in Range(tokens) : t # <<>> /\ ~BadSearchToken(t)

\* C13: after any sequence of uploads, deletes and purges, a search with no
\* token, one tag [t], one exclusion [!t] or a tag and an exclusion [a, !b]
\* answers (unless the store fails) with exactly the Active posts that hold
\* the tag asked for and do not hold the excluded tag, each once; it answers
\* "not found" iff there is none, and never lists a soft-deleted post.
C13_SearchExact ==
    (out.op = "get_search" /\ ValidTokens(out.q.tags)) =>
        LET expected ==
              { id \in DOMAIN posts :
                  /\ ~posts[id].is_deleted
                  /\ Included(out.q.tags) \subseteq posts[id].tag_vector
                  /\ Excluded(out.q.tags) \cap posts[id].tag_vector = {} }
        IN  /\ out.res \in {"Ok", "NotFound", "InternalError"}
            /\ out.res = "Ok" =>
                  /\ Range(out.body) = expected
                  /\ Len(out.body) = Cardinality(expected)
                  /\ expected # {}
            /\ out.res = "NotFound" => expected = {}

\* A search for [a, !b] has answered with a post, and left out another post
\* of the table
C13_SearchLeftOnePostOut ==
    /\ out.op = "get_search"
    /\ out.res = "Ok"
    /\ out.q.tags = <<TagA, <<"!", "b">> >>
    /\ \E id \in DOMAIN posts : id \notin Range(out.body)

----------------------------------------------------------------------------
(* Pages of a search *)

\* Rows of the tables that are paged through, and the pages asked for
MaxPaged == 3
MaxPage == 2
PagedIds == FirstId .. (FirstId + MaxPaged - 1)
PageSizes == {1, 2}
Pages == 0 .. MaxPage

\* A committed row: every row has the default score, since no statement
\* writes the column, and create_date is the clock reading of its insert,
\* which two rows may share
PagedRow(ts, date, deleted) ==
    [StoredRow(0, 1, deleted) EXCEPT !.tag_vector = ts, !.create_date = date]

PagedTables ==
    UNION { [S -> {PagedRow({t}, date, d) :
                     t \in {TagA, TagB}, date \in {1, 2}, d \in BOOLEAN}] :
            S \in SUBSET PagedIds }

\* The store with table `tbl` committed and no request in flight
InitPaged ==
    \E tbl \in PagedTables :
        /\ posts = [id \in DOMAIN tbl |-> [tbl[id] EXCEPT !.path = ImagePath(id)]]
        /\ tags = [t \in UNION {tbl[id].tag_vector : id \in DOMAIN tbl} |->
                     Cardinality({id \in DOMAIN tbl :
                                    ~tbl[id].is_deleted /\ t \in tbl[id].tag_vector})]
        /\ files = UNION { {ImgPath(ImagePath(id), id, "f.png"), TmbPath(ImagePath(id), id)} :
                             id \in DOMAIN tbl }
        /\ nextId = FirstId + MaxPaged
        /\ req = [r \in Reqs |-> IdleReq]
        /\ txPosts = [r \in Reqs |-> EmptyFn]
        /\ txTags = [r \in Reqs |-> EmptyFn]
        /\ out = NoOut
        /\ restores = 0
        /\ sessions = EmptyFn

\* Searches for tag a, for every page, page size and order
SearchPaged ==
    SearchOver({SearchQuery(<<TagA>>, page, <<n>>, sorting) :
                  page \in Pages, n \in PageSizes, sorting \in Sortings})

NextPaged == SearchPaged

SpecPaged == InitPaged /\ [][NextPaged]_vars

\* The bodies a client may have collected from pages 0..k of one query,
\* one after the other, on the rows `view`
RECURSIVE PagesUpTo(_, _, _)
PagesUpTo(view, q, k) ==
    IF k < 0 THEN {<<>>}
    ELSE { c \o resp.body :
             c \in PagesUpTo(view, q, k - 1),
             resp \in GetSearch(view, [q EXCEPT !.page = k], TRUE) }

\* The first n elements of a sequence
Prefix(seq, n) == SubSeq(seq, 1, IF n < Len(seq) THEN n ELSE Len(seq))

\* C14: for a fixed tag query, sort order and set of posts, the bodies of
\* pages 0..k with page size N, one after the other, are exactly the first
\* (k+1)*N posts of the one ordered result without a limit: no post twice,
\* none skipped, also when posts share a score or a creation timestamp.
C14_PagesConcatenate ==
    (out.op = "get_search" /\ out.res \in {"Ok", "NotFound"}) =>
        LET q == out.q
            n == LimitOf(q)
            whole == Orderings(posts, Selected(posts, q.tags), ToSql(q.sort))
        IN  /\ Cardinality(whole) = 1
            /\ \A before \in PagesUpTo(posts, q, q.page - 1), full \in whole :
                  LET got == before \o out.body
                  IN  /\ got = Prefix(full, (q.page + 1) * n)
                      /\ \A i, j \in DOMAIN got : i # j => got[i] # got[j]

\* Page 1 of a search by score has answered with a post, and two selected
\* posts share both the score and the creation timestamp
C14_SecondPageAmongTies ==
    /\ out.op = "get_search"
    /\ out.res = "Ok"
    /\ out.q.page = 1
    /\ out.q.sort = "vd"
    /\ \E a, b \in Selected(posts, out.q.tags) :
          /\ a # b
          /\ posts[a].score = posts[b].score
          /\ posts[a].create_date = posts[b].create_date

----------------------------------------------------------------------------
(* Reserved characters in tags *)

\* C15: on the search path and on the upload path, a request with a tag
\* token that holds a space, '|', '(' or ')' is rejected with BadTags and
\* makes no store call: a search with such a token answers BadTags without
\* a query, and no upload with such a tag gets as far as its transaction.
C15_ReservedTokenRejected ==
    /\ (out.op = "get_search" /\ \E t \in Range(out.q.tags) : BadSearchToken(t)) =>
           out.res = "BadTags" /\ out.store = <<>>
    /\ \A r \in Reqs :
           (req[r].op = "upload" /\ req[r].pc = "u_tags") =>
               \A t \in Range(req[r].tags) : ~BadSearchToken(t)

\* The characters no stored tag may hold
DelimiterChars == {" ", "+", "!", "|", "(", ")"}

\* C16: every tag string in the tag vector of every stored post is non-empty
\* and holds none of the characters space, '+', '!', '|', '(', ')', whatever
\* upload requests were accepted.
C16_TagVectorWellFormed ==
    \A id \in DOMAIN posts :
        \A t \in posts[id].tag_vector :
            /\ t # <<>>
            /\ \A i \in DOMAIN t : t[i] \notin DelimiterChars

----------------------------------------------------------------------------
(* The tag vector codec *)

\* Tag lists handed to the write side, of up to MaxCodecLen tags
MaxCodecLen == 3
CodecTags == {<<>>, <<"a">>, <<"b">>, <<"a", "b">>, <<"b", "a">>, <<"a", ",", "b">>}
CodecTagLists == UNION { [1..n -> CodecTags] : n \in 0..MaxCodecLen }

\* The bytes of the characters of the model (UTF-8, one byte each)
Chars == <<"a", "b", ",", " ", "+", "!", "|", "(", ")">>
Codes == <<97, 98, 44, 32, 43, 33, 124, 40, 41>>
ByteOf(c) == Codes[CHOOSE i \in DOMAIN Chars : Chars[i] = c]
CharOf(b) == Chars[CHOOSE i \in DOMAIN Codes : Codes[i] = b]

\* str.as_bytes()
AsBytes(str) == [i \in DOMAIN str |-> ByteOf(str[i])]

\* std::str::from_utf8: the string, or an error on a byte sequence that is
\* not UTF-8 (of one-byte characters: a byte above 127)
FromUtf8(bytes) ==
    IF \E i \in DOMAIN bytes : bytes[i] > 127
    THEN [str |-> <<>>, ok |-> FALSE]
    ELSE [str |-> [i \in DOMAIN bytes |-> CharOf(bytes[i])], ok |-> TRUE]

\* Big-endian integers of 2 and 4 bytes
U16(n) == <<(n \div 256) % 256, n % 256>>
U32(n) == <<0, 0>> \o U16(n)

\* The non-empty comma-separated tokens of a string, in order
RECURSIVE TokenSeq(_, _)
TokenSeq(str, cur) ==
    IF str = <<>> THEN (IF cur = <<>> THEN <<>> ELSE <<cur>>)
    ELSE IF Head(str) = ","
         THEN (IF cur = <<>> THEN <<>> ELSE <<cur>>) \o TokenSeq(Tail(str), <<>>)
         ELSE TokenSeq(Tail(str), Append(cur, Head(str)))

\* Byte string x sorts before byte string y (bytewise, the shorter first
\* when one is the beginning of the other)
RECURSIVE BytesBefore(_, _)
BytesBefore(x, y) ==
    IF y = <<>> THEN FALSE
    ELSE IF x = <<>> THEN TRUE
    ELSE IF Head(x) # Head(y) THEN Head(x) < Head(y)
    ELSE BytesBefore(Tail(x), Tail(y))

\* The lexemes of a tsvector in stored order
SortedLexemes(S) ==
    CHOOSE seq \in [1..Cardinality(S) -> S] :
        \A i, j \in 1..Cardinality(S) :
            i < j => BytesBefore(AsBytes(seq[i]), AsBytes(seq[j]))

\* The positions at which a lexeme stands in the token sequence, as
\* 2-byte records
RECURSIVE PositionRecords(_, _, _)
PositionRecords(toks, lex, i) ==
    IF i > Len(toks) THEN <<>>
    ELSE (IF toks[i] = lex THEN U16(i) ELSE <<>>) \o PositionRecords(toks, lex, i + 1)

\* One entry of the packed value: the lexeme, NUL, the count of positions
\* and the position records
PackedEntry(toks, lex) ==
    LET recs == PositionRecords(toks, lex, 1)
    IN  AsBytes(lex) \o <<0>> \o U16(Len(recs) \div 2) \o recs

RECURSIVE PackedEntries(_, _)
PackedEntries(toks, lexs) ==
    IF lexs = <<>> THEN <<>>
    ELSE PackedEntry(toks, Head(lexs)) \o PackedEntries(toks, Tail(lexs))

\* to_tsvector('tag_parser', $9) as the store hands it back in a row: the
\* packed value of the lexemes of the string
PackedTsvector(str) ==
    U32(Cardinality(ToTsvector(str)))
        \o PackedEntries(TokenSeq(str, <<>>), SortedLexemes(ToTsvector(str)))

\* while raw[j] != 0 { j += 1 }: the index of the NUL at or after i, or 0
\* when the index runs past the end of the buffer (a panic)
RECURSIVE ScanNul(_, _)
ScanNul(raw, j) ==
    IF j > Len(raw) THEN 0
    ELSE IF raw[j] = 0 THEN j
    ELSE ScanNul(raw, j + 1)

\* Fault: the loop goes on right after the count of positions, without
\* stepping over the position records
RECURSIVE DecodeLoop_OverCountOnly(_, _, _, _)
DecodeLoop_OverCountOnly(raw, i, decoded, expected) ==
    IF Len(decoded) = expected THEN [tags |-> decoded, kind |-> "Ok"]
    ELSE LET j == ScanNul(raw, i)
             s == FromUtf8(SubSeq(raw, i, j - 1))
         IN  IF j = 0 THEN [tags |-> <<>>, kind |-> "Panic"]
             ELSE IF ~s.ok THEN [tags |-> <<>>, kind |-> "Panic"]
             ELSE IF Len(raw) - j < 2 THEN [tags |-> <<>>, kind |-> "Panic"]
             ELSE DecodeLoop_OverCountOnly(raw, j + 3, Append(decoded, s.str), expected)

\* The loop of tsvector_from_sql, with indices counted from 1
RECURSIVE DecodeLoop(_, _, _, _)
DecodeLoop(raw, i, decoded, expected) ==
    IF Len(decoded) = expected THEN [tags |-> decoded, kind |-> "Ok"]
    ELSE LET j == ScanNul(raw, i)
             s == FromUtf8(SubSeq(raw, i, j - 1))
         IN  IF j = 0 THEN [tags |-> <<>>, kind |-> "Panic"]
             ELSE IF ~s.ok THEN [tags |-> <<>>, kind |-> "Panic"]
             ELSE IF Len(raw) - j < 2 THEN [tags |-> <<>>, kind |-> "Panic"]
             ELSE DecodeLoop(raw, j + 3 + 2 * (raw[j + 1] * 256 + raw[j + 2]),
                             Append(decoded, s.str), expected)

\* tsvector_from_sql, and TagVector::from_sql, which wraps its list in Ok:
\* BigEndian::read_u32 panics on fewer than 4 bytes
TsvectorFromSql(raw) ==
    IF Len(raw) < 4 THEN [tags |-> <<>>, kind |-> "Panic"]
    ELSE DecodeLoop(raw, 5, <<>>,
                    ((raw[1] * 256 + raw[2]) * 256 + raw[3]) * 256 + raw[4])

\* A list is written with NewPost::insert_into and the tag_vector column of
\* the row is decoded
StoreAndDecode ==
    /\ \E ts \in CodecTagLists :
         LET raw == PackedTsvector(JoinTags(ts))
         IN  out' = [tags |-> ts, op |-> "store_and_decode", res |-> TsvectorFromSql(raw),
                     raw |-> raw]
    /\ UNCHANGED <<posts, tags, files, nextId, req, txPosts, txTags, restores, sessions>>

\* Packed values as the store returns them
PackedValues == {PackedTsvector(JoinTags(ts)) : ts \in {<<>>, <<TagA>>, <<TagA, TagB>>}}

\* Buffers with fewer than the 4 bytes of the count
ShortHeader == {SubSeq(raw, 1, n) : raw \in PackedValues, n \in 0..3}

\* Buffers that end inside a lexeme, before its NUL
NoNul == {SubSeq(raw, 1, n) : raw \in PackedValues \ {U32(0)}, n \in 4..5}

\* Buffers that end after the NUL of the first lexeme, with no count of
\* positions or one byte of it
NoPositionCount == {SubSeq(raw, 1, n) : raw \in PackedValues \ {U32(0)}, n \in 6..7}

\* Buffers whose count is one more than the lexemes that follow
FewerLexemes ==
    {U32(raw[4] + 1) \o SubSeq(raw, 5, Len(raw)) : raw \in PackedValues}

\* Buffers with a byte in the first lexeme that no UTF-8 string holds
InvalidUtf8 == {[raw EXCEPT ![5] = 255] : raw \in PackedValues \ {U32(0)}}

MalformedBuffers ==
    ShortHeader \cup NoNul \cup NoPositionCount \cup FewerLexemes \cup InvalidUtf8

\* TagVector::from_sql on a buffer, as Post::deserialise_full calls it for
\* the tag_vector column of a row
DecodeBuffer ==
    /\ \E raw \in PackedValues \cup MalformedBuffers :
         out' = [op |-> "from_sql", res |-> TsvectorFromSql(raw), raw |-> raw]
    /\ UNCHANGED <<posts, tags, files, nextId, req, txPosts, txTags, restores, sessions>>

NextCodec ==
    \/ StoreAndDecode
    \/ DecodeBuffer

SpecCodec == Init /\ [][NextCodec]_vars

\* No tag of the list holds a comma or a character of the query language
NoDelimiters(ts) ==
    \A t \in Range(ts) : \A i \in DOMAIN t : t[i] \notin DelimiterChars \cup {","}

\* C17: for every tag list whose tags hold no delimiter character, writing
\* the list and decoding the stored packed value gives the set of the
\* non-empty tags of the list: the same set of tags as the list when no tag
\* of the list is empty.
C17_RoundTripNonEmpty ==
    (out.op = "store_and_decode" /\ NoDelimiters(out.tags)) =>
        /\ out.res.kind = "Ok"
        /\ Range(out.res.tags) = Range(out.tags) \ {<<>>}
        /\ Len(out.res.tags) = Cardinality(Range(out.tags) \ {<<>>})

\* C17 as stated: for every tag list whose tags hold no delimiter character,
\* writing the list and decoding the stored packed value gives the same set
\* of tags as the list.
C17_RoundTrip ==
    (out.op = "store_and_decode" /\ NoDelimiters(out.tags)) =>
        /\ out.res.kind = "Ok"
        /\ Range(out.res.tags) = Range(out.tags)

\* A list that repeats a tag and has two tags has been written and decoded
\* to its two tags
C17_DecodedTwoTags ==
    /\ out.op = "store_and_decode"
    /\ out.tags = <<TagB, TagA, TagB>>
    /\ out.res.kind = "Ok"
    /\ out.res.tags = <<TagA, TagB>>

\* C18: decoding a packed buffer that is shorter than its declared structure
\* (fewer than 4 header bytes, a lexeme with no NUL, a missing position
\* count, fewer lexemes than the count says) or that holds invalid UTF-8
\* yields a data-corruption error value: no crash, no truncated tag list.
C18_MalformedGivesError ==
    (out.op = "from_sql" /\ out.raw \in MalformedBuffers) => out.res.kind = "Err"

----------------------------------------------------------------------------
(* The page size of a search *)

\* Token lists with a tag, with a reserved character, with an empty token
\* before a tag, and with one tag more than MaxTags
LimitTokenLists ==
    { <<>>, <<TagA>>, << <<"a", " ", "b">> >>, << <<>>, TagA >>,
      [i \in 1..(MaxTags + 1) |-> TagA] }

\* The limits of the requests: none, and values up to and past MaxLimit
QueryLimits == {<<>>, <<0>>, <<DefaultLimit>>, <<MaxLimit>>, <<MaxLimit + 1>>}

SearchLimits ==
    SearchOver({SearchQuery(tokens, 0, limit, "dd") :
                  tokens \in LimitTokenLists, limit \in QueryLimits})

\* One writer at a time, and searches with any limit at any moment
NextLimits ==
    \/ NextOne
    \/ SearchLimits

SpecLimits == Init /\ [][NextLimits]_vars

\* C19, made precise: a search request with limit greater than 50 issues no
\* store query; if its tag list has no empty token it is rejected, with
\* BadTags when a token holds a reserved character, else with TagLimit when
\* the list has more than 10 tokens, else with PageSize.  A request with
\* limit at most 50 or with no limit is never rejected with PageSize; a
\* request with no limit that reaches the store asks for 20 rows, one with
\* a limit for that many.
C19_PageSizeRule ==
    out.op = "get_search" =>
        LET over == out.q.limit # <<>> /\ out.q.limit[1] > 50
            toks == out.q.tags
        IN  /\ over => out.store = <<>>
            /\ (over /\ <<>> \notin Range(toks)) =>
                   out.res = IF \E t \in Range(toks) : BadSearchToken(t) THEN "BadTags"
                             ELSE IF Len(toks) > 10 THEN "TagLimit"
                             ELSE "PageSize"
            /\ ~over => out.res # "PageSize"
            /\ out.store # <<>> =>
                   out.store[1].limit = IF out.q.limit = <<>> THEN 20 ELSE out.q.limit[1]

\* C19 as stated: a search request with limit greater than 50 is rejected
\* with PageSize and issues no store query; a request with limit at most
\* 50 is never rejected for its page size, and a request with no limit
\* uses 20.
C19_PageSizeAlways ==
    out.op = "get_search" =>
        LET over == out.q.limit # <<>> /\ out.q.limit[1] > 50
        IN  /\ over => (out.res = "PageSize" /\ out.store = <<>>)
            /\ ~over => out.res # "PageSize"
            /\ (out.store # <<>> /\ out.q.limit = <<>>) => out.store[1].limit = 20

\* A search for tag a with limit 51 has been answered with PageSize while
\* an Active post holds the tag
C19_RejectedForPageSize ==
    /\ out.op = "get_search"
    /\ out.q.tags = <<TagA>>
    /\ out.q.limit = <<51>>
    /\ out.res = "PageSize"
    /\ ActiveWith(TagA) # {}

----------------------------------------------------------------------------
(* Refused deletes *)

\* The step is the one in which delete request r has looked the post up and
\* goes on with its transaction open
DeleteLookedUp(r) ==
    /\ req[r].pc = "idle"
    /\ req'[r].op = "delete"
    /\ req'[r].pc # "idle"

\* C20: a delete request by a user who is neither the poster of the post nor
\* Moderator or Admin is answered with the Auth error, and a delete request
\* for a post that does not exist or is already soft-deleted with "not
\* found" (with InternalError when the store fails); in both cases no step
\* of the request changes a committed row, and so no soft-delete flag, or a
\* tag counter, and the request writes nothing in its transaction.
C20_RefusedDeleteChangesNothing ==
    [][\A r \in Reqs :
          /\ DeleteLookedUp(r) =>
                LET id == req'[r].id
                    uid == req'[r].uid
                    active == id \in DOMAIN posts /\ ~posts[id].is_deleted
                IN  /\ ~active => req'[r].res = "NotFound"
                    /\ ( /\ active
                         /\ posts[id].poster # uid
                         /\ UserPerms[uid] \notin {"Moderator", "Admin"} ) =>
                            req'[r].res = "Auth"
                    /\ req'[r].res \in {"Auth", "NotFound"} =>
                            /\ req'[r].pc = "d_commit"
                            /\ posts' = posts
                            /\ tags' = tags
                            /\ txPosts'[r] = EmptyFn
                            /\ txTags'[r] = EmptyFn
          /\ (DeleteStepOf(r) /\ req[r].res \in {"Auth", "NotFound"}) =>
                /\ out'.op = "delete"
                /\ out'.res \in {req[r].res, "InternalError"}
                /\ req'[r].pc = "idle"
                /\ posts' = posts
                /\ tags' = tags
      ]_vars

\* User 2, who is not the poster and has permission User, has been answered
\* Auth, and the post is Active with its counters as the upload left them
C20_RefusedPostStillActive ==
    /\ out = Out("delete", "Auth")
    /\ \E id \in DOMAIN posts :
          /\ ~posts[id].is_deleted
          /\ posts[id].tag_vector # {}
          /\ \A t \in posts[id].tag_vector : Counter(tags, t) >= 1

----------------------------------------------------------------------------
(* Concurrent uploads and the tag counters *)

\* Tag lists in which every tag stands once, in both orders
OnceTagLists == {<<TagA>>, <<TagB>>, <<TagA, TagB>>, <<TagB, TagA>>}

\* Counters that earlier uploads, deletes and purges have left: no row, or
\* a row with a count up to MaxCount
MaxCount == 1
CountersBefore ==
    UNION { [S -> 0..MaxCount] : S \in SUBSET {TagA, TagB} }

\* No post is stored and no request is in flight
InitCounted ==
    /\ posts = EmptyFn
    /\ tags \in CountersBefore
    /\ files = {}
    /\ nextId = FirstId
    /\ req = [r \in Reqs |-> IdleReq]
    /\ txPosts = [r \in Reqs |-> EmptyFn]
    /\ txTags = [r \in Reqs |-> EmptyFn]
    /\ out = NoOut
    /\ restores = 0
    /\ sessions = EmptyFn

UploadStartOnce(r) == UploadStartWith(r, OnceTagLists)

UploadOnce(r) ==
    \/ UploadStartOnce(r)
    \/ UploadTagCount(r)
    \/ UploadWriteFiles(r)
    \/ UploadCommit(r)

\* Uploads only, two at a time
NextUp == \E r \in Reqs : UploadOnce(r)

SpecUp == InitCounted /\ [][NextUp]_vars

\* The committed rows of `tbl` that hold tag t
HoldersIn(tbl, t) == {id \in DOMAIN tbl : t \in tbl[id].tag_vector}

\* C21: no increment of a tag counter is lost when uploads run concurrently.
\* In every step, for every tag, the counter goes up by exactly the number
\* of posts with that tag that the step commits (a missing row counting 0,
\* so that the first commit creates the row with count 1); hence k uploads
\* that list t once and all commit leave the counter of t exactly k higher,
\* however their upsert statements interleave.
C21_NoLostIncrement ==
    [][\A t \in {TagA, TagB} :
          /\ Counter(tags', t) - Counter(tags, t) =
                Cardinality(HoldersIn(posts', t)) - Cardinality(HoldersIn(posts, t))
          /\ (t \notin DOMAIN tags /\ t \in DOMAIN tags') => tags'[t] = 1
      ]_vars

\* Two uploads with tag a overlap: the one that began later has committed
\* and raised the counter of a from 1 to 2, and the one that began first
\* has made its upsert after that and is about to commit the count 3
C21_SecondIncrementOnTop ==
    /\ DOMAIN posts = {FirstId + 1}
    /\ TagA \in posts[FirstId + 1].tag_vector
    /\ TagA \in DOMAIN tags
    /\ tags[TagA] = 2
    /\ \E r \in Reqs :
          /\ req[r].pc = "u_commit"
          /\ req[r].id = FirstId
          /\ TagA \in DOMAIN txTags[r]
          /\ txTags[r][TagA] = 3

----------------------------------------------------------------------------
(* Concurrent deletes of one post *)

\* C22: two delete requests for the same Active post that run concurrently
\* decrement the post's tag counters once in total: a step lowers a
\* committed counter only as the commit of a delete whose post is Active
\* before that step, so that the request that comes second, finding the post
\* soft-deleted, does not decrement again.
C22_DecrementedOnce ==
    [][(\E t \in DOMAIN tags : Counter(tags', t) < tags[t]) =>
          \E r \in Reqs :
              /\ DeleteCommitted(r)
              /\ req[r].id \in DOMAIN posts
              /\ ~posts[req[r].id].is_deleted
      ]_vars

----------------------------------------------------------------------------
(* ts_query_builder, on its own *)

\* Token lists that pass the validation of get_search, of up to
\* MaxBuilderLen tokens
MaxBuilderLen == 3
BuilderTokens == {TagA, TagB, <<"!", "a">>, <<"!", "b">>, <<"!">>}
BuilderTokenLists == UNION { [1..n -> BuilderTokens] : n \in 0..MaxBuilderLen }

\* The predicate Post::select_fulltext_tags puts in its WHERE clause, by
\* the two strings of the builder
ChosenPredicate(tokens) ==
    LET q == TsQueryBuilder(tokens)
    IN  IF tokens = <<>> THEN "none"
        ELSE IF q.exclude = <<>> THEN "include"
        ELSE IF q.include = <<>> THEN "exclude"
        ELSE "both"

\* One call of select_fulltext_tags, up to the choice of its query
CallTsQueryBuilder ==
    /\ \E tokens \in BuilderTokenLists :
         out' = [op |-> "ts_query_builder", res |-> TsQueryBuilder(tokens),
                 tokens |-> tokens,
                 predicate |-> ChosenPredicate(tokens)]
    /\ UNCHANGED <<posts, tags, files, nextId, req, txPosts, txTags, restores, sessions>>

NextBuilder == CallTsQueryBuilder

SpecBuilder == Init /\ [][NextBuilder]_vars

\* The tokens of a list that begin with '!', without it, and the others,
\* both in input order
IsExclusion(t) == t # <<>> /\ Head(t) = "!"
IsInclusion(t) == ~IsExclusion(t)
ExcludePart(tokens) ==
    LET sel == SelectSeq(tokens, IsExclusion)
    IN  [i \in DOMAIN sel |-> Tail(sel[i])]
IncludePart(tokens) == SelectSeq(tokens, IsInclusion)

\* The strings of a list with a comma between them
RECURSIVE CommaJoined(_)
CommaJoined(strs) ==
    IF strs = <<>> THEN <<>>
    ELSE IF Len(strs) = 1 THEN Head(strs)
    ELSE Head(strs) \o <<",">> \o CommaJoined(Tail(strs))

\* C23: for every token list that passes validation, the token "!" alone
\* included, the builder puts the tokens that begin with '!', stripped of
\* it, in the exclude expression and the others in the include expression,
\* each comma-joined in input order with no trailing comma, and the search
\* predicate is chosen by which of the two partitions have tokens: none =>
\* no tag predicate, only exclusions => NOT matches(exclude), only
\* inclusions => matches(include), both => the conjunction.
C23_BuilderPartitions ==
    out.op = "ts_query_builder" =>
        LET inc == IncludePart(out.tokens)
            exc == ExcludePart(out.tokens)
        IN  /\ out.res.kind = "Ok"
            /\ out.res.include = CommaJoined(inc)
            /\ out.res.exclude = CommaJoined(exc)
            /\ out.predicate =
                  IF inc = <<>> /\ exc = <<>> THEN "none"
                  ELSE IF inc = <<>> THEN "exclude"
                  ELSE IF exc = <<>> THEN "include"
                  ELSE "both"

----------------------------------------------------------------------------
(* Searches with several exclusions *)

\* Searches that exclude one tag or two, on the first page
SearchExclusions ==
    SearchOver({SearchQuery(tokens, 0, <<>>, "dd") :
                  tokens \in { << <<"!", "a">> >>, << <<"!", "b">> >>,
                               << <<"!", "a">>, <<"!", "b">> >>,
                               << <<"!", "b">>, <<"!", "a">> >>,
                               << TagA, <<"!", "a">>, <<"!", "b">> >> }})

NextExclusions == SearchExclusions

SpecExclusions == InitPaged /\ [][NextExclusions]_vars

\* C24: with several exclusion tokens a search leaves out every post that
\* holds at least one of the excluded tags: no post of the body holds a tag
\* that a token of the request excludes.
C24_EveryExclusionApplies ==
    (out.op = "get_search" /\ out.res = "Ok") =>
        \A i \in DOMAIN out.body :
            posts[out.body[i]].tag_vector \cap Excluded(out.q.tags) = {}

----------------------------------------------------------------------------
(* Decoding well-formed packed values *)

\* Entries of a packed value: a lexeme and up to MaxPositions position
\* records of any content, a NUL byte, a letter and the bytes ff ff among
\* them; a buffer has up to MaxEntries entries
MaxEntries == 2
MaxPositions == 2
PositionRecord == {<<0, 0>>, <<97, 0>>, <<255, 255>>}
Entries ==
    { [lex |-> lex, recs |-> recs] :
        lex \in {<<"a">>, <<"a", "b">>},
        recs \in UNION { [1..p -> PositionRecord] : p \in 0..MaxPositions } }
EntryLists == UNION { [1..n -> Entries] : n \in 0..MaxEntries }

RECURSIVE Flatten(_)
Flatten(seqs) == IF seqs = <<>> THEN <<>> ELSE Head(seqs) \o Flatten(Tail(seqs))

\* The bytes of one entry and of a whole buffer
EntryBytes(e) == AsBytes(e.lex) \o <<0>> \o U16(Len(e.recs)) \o Flatten(e.recs)
BufferOf(es) == U32(Len(es)) \o Flatten([i \in DOMAIN es |-> EntryBytes(es[i])])

\* TagVector::from_sql on a well-formed buffer
DecodeEntries ==
    /\ \E es \in EntryLists :
         out' = [op |-> "decode_entries", res |-> TsvectorFromSql(BufferOf(es)),
                 raw |-> BufferOf(es), entries |-> es]
    /\ UNCHANGED <<posts, tags, files, nextId, req, txPosts, txTags, restores, sessions>>

NextDecode == DecodeEntries

SpecDecode == Init /\ [][NextDecode]_vars

\* C25: for every well-formed packed buffer, decode returns exactly the N
\* strings of its entries in stored order, whatever the count of positions
\* and the content of the position records of each entry.
C25_DecodesStoredStrings ==
    out.op = "decode_entries" =>
        /\ out.res.kind = "Ok"
        /\ out.res.tags = [i \in DOMAIN out.entries |-> out.entries[i].lex]

\* A buffer of two entries has been decoded whose first entry has two
\* position records, one of them with a NUL byte and a letter
C25_DecodedPastRecords ==
    /\ out.op = "decode_entries"
    /\ Len(out.entries) = 2
    /\ out.entries[1].recs = << <<97, 0>>, <<255, 255>> >>
    /\ out.res.kind = "Ok"
    /\ Len(out.res.tags) = 2

----------------------------------------------------------------------------
(* The paths purge removes *)

\* C26: the image path and the thumbnail path that purge removes for a post
\* are the two paths the upload of that post wrote: when a purge run comes to
\* the files of a post, the paths it builds from the listed row are exactly
\* the files on disk that carry the post's id, the step removes nothing else,
\* and when both removals succeed no file of the post is left.
C26_PurgeRemovesUploadedPaths ==
    [][\A r \in Reqs :
          (req[r].pc = "p_files" /\ req'[r] # req[r]) =>
              \A post \in {p \in req[r].todo : p.id = req[r].id} :
                  LET img == ImgPath(post.path, post.id, post.filename)
                      tmb == TmbPath(post.path, post.id)
                  IN  /\ img # tmb
                      /\ FilesOfIn(files, post.id) = {img, tmb}
                      /\ files \ files' \subseteq {img, tmb}
                      /\ (req'[r].pc = "p_loop" \/ out' = Out("purge", "Ok")) =>
                             FilesOfIn(files', post.id) = {}]_vars

\* A purge run has removed the row and both files of the second post, whose
\* subfolder is not the one of the placeholder
C26_SecondPostPurged ==
    \E r \in Reqs :
        /\ req[r].op = "purge"
        /\ req[r].pc = "p_loop"
        /\ FirstId + 1 \in req[r].removed
        /\ ImagePath(FirstId + 1) # PlaceholderPath
        /\ FilesOfIn(files, FirstId + 1) = {}

----------------------------------------------------------------------------
(* image_path, on its own *)

\* Identifiers at both ends of every run of 65536 ids with one shifted value,
\* for the shifted values 0..MaxShifted
MaxShifted == 260
PathIds == { k * 65536 + d : k \in 0..MaxShifted, d \in {0, 65535} }

\* The directories Action::CreateFolders makes under img/ and tmb/:
\* format!("{:02x}", i) for i in 0..256
BucketDirs ==
    { LET h == Hex(i) IN IF Len(h) < 2 THEN <<"0">> \o h ELSE h : i \in 0..255 }

CallImagePath ==
    /\ \E id \in PathIds :
         out' = [id |-> id, op |-> "image_path", res |-> ImagePath(id)]
    /\ UNCHANGED <<posts, tags, files, nextId, req, txPosts, txTags, restores, sessions>>

NextPath == CallImagePath

SpecPath == Init /\ [][NextPath]_vars

\* C27: for every non-negative identifier the derived subfolder is a string
\* of exactly two hexadecimal digits, one of the 256 directories 00..ff that
\* the create-folders action makes.
C27_SubfolderIsBucket ==
    out.op = "image_path" =>
        /\ Len(out.res) = 2
        /\ out.res \in BucketDirs

----------------------------------------------------------------------------
(* The stored path of a row *)

\* Every row of the table has the subfolder derived from its id
PathsDerived(tbl) == \A id \in DOMAIN tbl : tbl[id].path = ImagePath(id)

\* C28: every committed row has a stored path equal to the subfolder derived
\* from its id and no step changes the path of a committed row; a row whose
\* path is still the placeholder is the uncommitted row of an upload that has
\* not reached update_path, which no other request sees; and inside a
\* transaction the path changes once, from the placeholder to the derived
\* subfolder, in the upload's update_path.
C28_PathDerivedAndFixed ==
    [][/\ PathsDerived(posts')
       /\ \A id \in DOMAIN posts \cap DOMAIN posts' :
             posts'[id].path = posts[id].path
       /\ \A r \in Reqs : \A id \in DOMAIN txPosts'[r] :
             txPosts'[r][id].path # ImagePath(id) =>
                 /\ txPosts'[r][id].path = PlaceholderPath
                 /\ req'[r].op = "upload"
                 /\ req'[r].pc = "u_tags"
                 /\ req'[r].id = id
                 /\ id \notin DOMAIN posts'
                 /\ \A o \in Reqs \ {r} : id \notin DOMAIN txPosts'[o]
       /\ \A r \in Reqs : \A id \in DOMAIN txPosts[r] \cap DOMAIN txPosts'[r] :
             txPosts'[r][id].path # txPosts[r][id].path =>
                 /\ txPosts[r][id].path = PlaceholderPath
                 /\ txPosts'[r][id].path = ImagePath(id)
                 /\ req[r].op = "upload"
                 /\ req[r].pc = "u_tags"
                 /\ req'[r].pc = "u_files"]_vars

\* The second post, whose subfolder is not the placeholder, is committed with
\* its derived path after it was soft-deleted and restored
C28_RestoredWithDerivedPath ==
    /\ FirstId + 1 \in DOMAIN posts
    /\ ImagePath(FirstId + 1) # PlaceholderPath
    /\ posts[FirstId + 1].path = ImagePath(FirstId + 1)
    /\ ~posts[FirstId + 1].is_deleted
    /\ restores = 1

----------------------------------------------------------------------------
(* get_random_post and Post::select_post_random *)

\* The clauses of the statement of select_post_random, in the order of its
\* text: SELECT * FROM posts ORDER BY RANDOM() LIMIT 1 WHERE is_deleted='false'
RandomClauses == <<"SELECT", "FROM", "ORDER BY", "LIMIT", "WHERE">>

\* The place of a clause in a SELECT statement of the store
ClauseRank(c) ==
    CASE c = "SELECT" -> 1
      [] c = "FROM" -> 2
      [] c = "WHERE" -> 3
      [] c = "ORDER BY" -> 4
      [] c = "LIMIT" -> 5

\* The store prepares a statement whose clauses come in this order, and
\* answers any other with a syntax error
Prepares(clauses) ==
    \A i \in DOMAIN clauses : \A j \in DOMAIN clauses :
        i < j => ClauseRank(clauses[i]) < ClauseRank(clauses[j])

\* The rows the statement picks from: WHERE is_deleted='false'
RandomCandidates == {id \in DOMAIN posts : ~posts[id].is_deleted}

\* query_opt on the statement: an error, or the row picked, if any
SelectPostRandom(pick) ==
    IF ~Prepares(RandomClauses) THEN [ok |-> FALSE, row |-> {}]
    ELSE [ok |-> TRUE, row |-> pick]

\* get_random_post: pool.get(), Post::select_post_random(&conn) and the match
\* on the row.  ORDER BY RANDOM() LIMIT 1 picks any one of the rows.
GetRandomPost ==
    /\ \E pool \in BOOLEAN :
       \E pick \in IF RandomCandidates = {} THEN {{}}
                    ELSE {{posts[id]} : id \in RandomCandidates} :
         LET sel == SelectPostRandom(pick)
         IN  out' = [op |-> "get_random_post", res |-> IF ~pool \/ ~sel.ok THEN "InternalError"
                             ELSE IF sel.row = {} THEN "NotFound" ELSE "Ok",
                     body |-> IF pool /\ sel.ok THEN sel.row ELSE {},
                     pool |-> pool]
    /\ UNCHANGED <<posts, tags, files, nextId, req, txPosts, txTags, restores, sessions>>

\* One writer at a time, and requests for a random post at any moment
NextRandom ==
    \/ NextOne
    \/ GetRandomPost

SpecRandom == Init /\ [][NextRandom]_vars

\* C29: when a connection is at hand, a request for a random post answers
\* with one post that is not soft-deleted if there is such a post, and with
\* "not found" if there is none.
C29_RandomAmongActive ==
    (out.op = "get_random_post" /\ out.pool) =>
        IF RandomCandidates # {}
        THEN /\ out.res = "Ok"
             /\ \E id \in RandomCandidates : out.body = {posts[id]}
        ELSE out.res = "NotFound"

----------------------------------------------------------------------------
(* Sessions: POST /login, DELETE /logout, GET /loggedin *)

\* Strings of this section are sequences of parts; a part stands for the
\* characters of its name and has their count as its length (a token is the
\* base64 text of 40 bytes)
PartLen == ("user:" :> 5) @@ ("t1" :> 56) @@ ("t2" :> 56) @@ ("long" :> 513)

RECURSIVE StrLen(_)
StrLen(str) == IF str = <<>> THEN 0 ELSE PartLen[Head(str)] + StrLen(Tail(str))

\* The tokens rand::thread_rng() fills in
SessionTokens == {<<"t1">>, <<"t2">>}

\* The Authorization header of a request: none, or one with a value
HeaderValues == SessionTokens \cup {<<>>, <<"user:", "t1">>, <<"long">>}
Headers == {<<>>} \cup {<<v>> : v \in HeaderValues}

\* format!("user:{}", token), and key.push_str("user:") before the token
UserKey(token) == <<"user:">> \o token

\* &key[5..key.len()]
TokenOfKey(key) == Tail(key)

\* AuthInfo::from(user)
AuthInfoOf(uid) == [uid |-> uid, perms |-> UserPerms[uid]]

\* SETNX key value
Setnx(store, key, value) == IF key \in DOMAIN store THEN store ELSE (key :> value) @@ store

\* DEL key
Del(store, key) == Restrict(store, DOMAIN store \ {key})

\* AuthDb::verify: the outcome for a header, given whether GET succeeds
Verify(header, redisOk) ==
    IF header = <<>> THEN [res |-> "Ok", info |-> <<>>]
    ELSE IF StrLen(header[1]) = 0 \/ StrLen(header[1]) > 512
    THEN [res |-> "BadRequestData", info |-> <<>>]
    ELSE IF ~redisOk THEN [res |-> "InternalError", info |-> <<>>]
    ELSE IF UserKey(header[1]) \in DOMAIN sessions
    THEN [res |-> "Ok", info |-> <<sessions[UserKey(header[1])]>>]
    ELSE [res |-> "Ok", info |-> <<>>]

\* The response of a session request: the token is the one handed out by
\* login, or the value of the header of the other requests
SessionOut(op, res, token, info) == [op |-> op, res |-> res, token |-> token, info |-> info]

\* post_login, sent without a header: the user row and the password check,
\* the token, AuthDb::remember (whose bool is not looked at)
PostLogin ==
    /\ \E uid \in Users, dbOk \in BOOLEAN, credentials \in BOOLEAN,
          token \in SessionTokens, redisOk \in BOOLEAN :
         IF ~dbOk
         THEN /\ out' = SessionOut("login", "InternalError", <<>>, <<>>)
              /\ UNCHANGED sessions
         ELSE IF ~credentials
         THEN /\ out' = SessionOut("login", "BadCredentials", <<>>, <<>>)
              /\ UNCHANGED sessions
         ELSE IF ~redisOk
         THEN /\ out' = SessionOut("login", "InternalError", <<>>, <<>>)
              /\ UNCHANGED sessions
         ELSE /\ sessions' = Setnx(sessions, UserKey(token), AuthInfoOf(uid))
              /\ out' = SessionOut("login", "Ok", TokenOfKey(UserKey(token)),
                                   <<AuthInfoOf(uid)>>)
    /\ UNCHANGED <<posts, tags, files, nextId, req, txPosts, txTags, restores>>

\* Authenticated::forget: DEL with the value of the Authorization header
Forget(store, header) == Del(store, header[1])

\* delete_logout behind AuthMiddleware: verify, the Authenticated extractor,
\* forget
DeleteLogout ==
    /\ \E header \in Headers, getOk \in BOOLEAN, delOk \in BOOLEAN :
         LET v == Verify(header, getOk)
         IN  IF v.res # "Ok"
             THEN /\ out' = SessionOut("logout", v.res, header, <<>>)
                  /\ UNCHANGED sessions
             ELSE IF v.info = <<>>
             THEN /\ out' = SessionOut("logout", "BadCredentials", header, <<>>)
                  /\ UNCHANGED sessions
             ELSE IF ~delOk
             THEN /\ out' = SessionOut("logout", "InternalError", header, v.info)
                  /\ UNCHANGED sessions
             ELSE /\ sessions' = Forget(sessions, header)
                  /\ out' = SessionOut("logout", "Ok", header, v.info)
    /\ UNCHANGED <<posts, tags, files, nextId, req, txPosts, txTags, restores>>

\* get_logged_in behind AuthMiddleware: verify, the MaybeAuthenticated
\* extractor, is_authenticated
GetLoggedIn ==
    /\ \E header \in Headers, getOk \in BOOLEAN :
         LET v == Verify(header, getOk)
         IN  out' = SessionOut("loggedin",
                               IF v.res # "Ok" THEN v.res
                               ELSE IF v.info # <<>> THEN "logged in" ELSE "logged out",
                               header, v.info)
    /\ UNCHANGED <<posts, tags, files, nextId, req, txPosts, txTags, restores, sessions>>

NextSession ==
    \/ PostLogin
    \/ DeleteLogout
    \/ GetLoggedIn

SpecSession == Init /\ [][NextSession]_vars

\* A request with this header is authenticated
Authenticates(header) == Verify(header, TRUE).info # <<>>

\* C30: after a login that handed out token T, the requests that carry T are
\* authenticated; after a successful logout request that carried T, the key
\* login stored for T is in the session store no more, and the requests that
\* carry T are not authenticated.
C30_SessionLifecycle ==
    /\ (out.op = "login" /\ out.res = "Ok") =>
           /\ UserKey(out.token) \in DOMAIN sessions
           /\ Authenticates(<<out.token>>)
    /\ (out.op = "logout" /\ out.res = "Ok") =>
           /\ UserKey(out.token[1]) \notin DOMAIN sessions
           /\ ~Authenticates(out.token)

----------------------------------------------------------------------------
(* Files and committed rows *)

\* No request is in flight
Quiescent == \A r \in Reqs : req[r].pc = "idle"

\* C31: an upload that answers with an error leaves no file on disk: whenever
\* no request is in flight, every image and thumbnail file below the storage
\* root carries the id of a committed post row.
C31_FilesBelongToRows ==
    Quiescent => \A f \in files : f[3][1] \in DOMAIN posts

\* The image and the thumbnail of a committed row
FilesOfRow(tbl, id) ==
    {ImgPath(tbl[id].path, id, tbl[id].filename), TmbPath(tbl[id].path, id)}

\* C32: every committed post row, soft-deleted or not, has its image file and
\* its thumbnail file on disk, and a step removes a file only of a post whose
\* row is gone.
C32_RowsHaveBothFiles ==
    [][/\ \A id \in DOMAIN posts' :
             /\ Cardinality(FilesOfRow(posts', id)) = 2
             /\ FilesOfRow(posts', id) \subseteq files'
       /\ \A f \in files \ files' : f[3][1] \notin DOMAIN posts']_vars

\* A purge run has removed the row and the files of the first post, and the
\* second post is committed and soft-deleted with both files on disk
C32_PurgedBesideKept ==
    /\ FirstId \notin DOMAIN posts
    /\ nextId > FirstId + 1
    /\ FilesOfIn(files, FirstId) = {}
    /\ FirstId + 1 \in DOMAIN posts
    /\ posts[FirstId + 1].is_deleted
    /\ FilesOfRow(posts, FirstId + 1) \subseteq files
    /\ \E r \in Reqs : FirstId \in req[r].removed

----------------------------------------------------------------------------
(* Repeated purge runs *)

NextPurge == \E r \in Reqs : Purge(r)

\* A run lists the soft-deleted rows
PurgeLists(r) == PurgeStart(r) /\ req'[r].pc = "p_loop"

\* The DELETE of a turn of the loop is carried out
PurgeDeletes(r) == PurgeDelete(r) /\ out'.res # "InternalError"

\* Both files of a turn of the loop are removed
PurgeRemovesBoth(r) ==
    PurgeRemoveFiles(r) /\ (req'[r].pc = "p_loop" \/ out' = Out("purge", "Ok"))

\* Purge runs are made again and again by an Admin, every run goes on, and
\* the store and the removal of files succeed again and again
PurgeFairness ==
    \A r \in Reqs :
        /\ WF_vars(Purge(r))
        /\ SF_vars(PurgeLists(r))
        /\ SF_vars(PurgeDeletes(r))
        /\ SF_vars(PurgeRemovesBoth(r))

SpecPurge == InitStored /\ [][NextPurge]_vars /\ PurgeFairness

\* No run is at the files of post id
NotAtFiles(id) == \A r \in Reqs : ~(req[r].pc = "p_files" /\ req[r].id = id)

\* Every soft-deleted post is purged in the end
SoftDeletedPurgedInTheEnd ==
    \A id \in PostIds :
        (id \in DOMAIN posts /\ posts[id].is_deleted) ~> (id \notin DOMAIN posts)

\* C33: under repeated purge runs in which the removal of files succeeds in
\* the end, the files that a failed removal of a purged post left behind are
\* removed in the end, and every soft-deleted post is purged in the end.
C33_PurgeCleansInTheEnd ==
    /\ \A id \in PostIds :
          (id \notin DOMAIN posts /\ FilesOfIn(files, id) # {} /\ NotAtFiles(id))
              ~> (FilesOfIn(files, id) = {})
    /\ SoftDeletedPurgedInTheEnd

----------------------------------------------------------------------------
(* Searches with empty tokens *)

\* Token lists of up to MaxTokens tokens, with empty tokens at any place
MaxTokens == 3
TokenChoices == {<<>>, TagA, <<"!", "a">>, <<"a", " ">>}
EmptyTokenLists == UNION { [1..n -> TokenChoices] : n \in 0..MaxTokens }

SearchEmptyTokens ==
    SearchOver({SearchQuery(tokens, 0, <<>>, "dd") : tokens \in EmptyTokenLists})

NextTokens == SearchEmptyTokens

SpecTokens == InitStored /\ [][NextTokens]_vars

\* The tokens of a list that are not empty, in order
RECURSIVE NonEmptyTokens(_)
NonEmptyTokens(tokens) ==
    IF tokens = <<>> THEN <<>>
    ELSE IF Head(tokens) = <<>> THEN NonEmptyTokens(Tail(tokens))
    ELSE <<Head(tokens)>> \o NonEmptyTokens(Tail(tokens))

\* C34: for every token list the search handler ends with a response and
\* does not crash; a list with a token that has a reserved character is
\* answered with BadTags, and the list that reaches the query builder is the
\* list of the request without its empty tokens.
C34_SearchNeverCrashes ==
    out.op = "get_search" =>
        /\ out.res # "Panic"
        /\ (\E i \in DOMAIN out.q.tags : BadSearchToken(out.q.tags[i])) =>
               out.res = "BadTags"
        /\ out.store # <<>> => out.store[1].tags = NonEmptyTokens(out.q.tags)

----------------------------------------------------------------------------
(* page * limit, on 32 bits *)

\* A u32 as the pair <<high, low>> of its 16-bit halves
HalfWord == 65536

\* Pages at the ends of the range of u32 and on both sides of 2^32 / 50
\* (85899345 = 1310 * 65536 + 47185)
PageHalves == {0, 1, 1310, 1311, 65535}
PageLows == {0, 1, 47185, 47186, 65535}
OffsetPages == {<<h, l>> : h \in PageHalves, l \in PageLows}

\* The limits get_search lets through
OffsetLimits == 0..MaxLimit

\* The product of a page and a limit as a number: its low half and the rest
Product(page, limit) ==
    <<page[1] * limit + (page[2] * limit) \div HalfWord, (page[2] * limit) % HalfWord>>

\* page * limit on u32: the product if it fits; if not, a panic in a build
\* with overflow checks and the low 32 bits in a build without
Offset(page, limit) ==
    LET prod == Product(page, limit)
    IN  IF prod[1] < HalfWord THEN {[kind |-> "Ok", value |-> prod]}
        ELSE {[kind |-> "Panic", value |-> <<0, 0>>],
              [kind |-> "Ok", value |-> <<prod[1] % HalfWord, prod[2]>>]}

\* The OFFSET of the statement of select_fulltext_tags / select_fulltext_empty
CallOffset ==
    /\ \E page \in OffsetPages, limit \in OffsetLimits :
         \E res \in Offset(page, limit) :
           out' = [op |-> "offset", res |-> res, limit |-> limit, page |-> page]
    /\ UNCHANGED <<posts, tags, files, nextId, req, txPosts, txTags, restores, sessions>>

NextOffset == CallOffset

SpecOffset == Init /\ [][NextOffset]_vars

\* C35: for every page of 32 bits and every limit up to 50, the OFFSET sent
\* to the store is the product of page and limit as numbers.
C35_OffsetIsProduct ==
    out.op = "offset" =>
        /\ out.res.kind = "Ok"
        /\ out.res.value = Product(out.page, out.limit)

----------------------------------------------------------------------------
(* The post of the upload response *)

\* The PostFull that insert_into returned to post_upload (RETURNING *): the
\* handler calls update_path on Post::Partial(post.id), never on this value,
\* and serialises it into the 200 response as it came from the INSERT
ReturnedPost(r) == [txPosts[r][req[r].id] EXCEPT !.path = PlaceholderPath]

\* C36: the post in the response of a successful upload equals the row the
\* upload committed, its path included.
C36_ResponseIsCommittedRow ==
    [][\A r \in Reqs :
          UploadCommitted(r) => ReturnedPost(r) = posts'[req[r].id]]_vars

----------------------------------------------------------------------------
(* Purge requests of principals that are not Admin *)

\* C37: a purge request of a principal whose permission is not Admin is
\* answered with the Auth error and removes no row and no file: the step
\* that answers Auth changes no table and no file, every purge run that goes
\* on past the check is an Admin's, and a step removes a row or a file only
\* as part of such a run.
C37_PurgeNeedsAdmin ==
    [][/\ out' = Out("purge", "Auth") =>
             /\ posts' = posts
             /\ tags' = tags
             /\ files' = files
             /\ req' = req
       /\ \A r \in Reqs :
             req'[r].op = "purge" => UserPerms[req'[r].uid] = "Admin"
       /\ (DOMAIN posts \ DOMAIN posts' # {} \/ files \ files' # {}) =>
             \E r \in Reqs :
                 /\ req[r].op = "purge"
                 /\ UserPerms[req[r].uid] = "Admin"
                 /\ req'[r] # req[r]]_vars

\* A purge request was answered with Auth while a soft-deleted post is in the
\* table with both files on disk
C37_RefusedWithWorkToDo ==
    /\ out = Out("purge", "Auth")
    /\ \E id \in DOMAIN posts :
          /\ posts[id].is_deleted
          /\ FilesOfRow(posts, id) \subseteq files

----------------------------------------------------------------------------
(* Post::Partial and Post::Full *)

\* enum Post { Partial(i64), Full(PostFull) }: the row of a Full post is the
\* one element of `row`
PartialPost(id) == [id |-> id, row |-> <<>>, kind |-> "Partial"]
FullPost(id, row) == [id |-> id, row |-> <<row>>, kind |-> "Full"]

\* Post::get_id
GetId(post) == post.id

\* What a call returns: a value, an error of the statement, or a panic
Returned(kind, val) == [kind |-> kind, val |-> val]

\* Post::as_full and Post::into_full
AsFull(post) ==
    IF post.kind = "Full" THEN Returned("Ok", post.row) ELSE Returned("Panic", <<>>)

\* Fault: an update that leaves the value in memory as it was
IfFullSetPath_Never(post, newPath) == post

\* self.if_full(|p| { p.path.clear(); p.path.push_str(new_path) })
IfFullSetPath(post, newPath) ==
    IF post.kind = "Full"
    THEN [post EXCEPT !.row = <<[post.row[1] EXCEPT !.path = newPath]>>]
    ELSE post

\* self.if_full(|p| { p.is_deleted = is_deleted })
IfFullSetDeleted(post, flag) ==
    IF post.kind = "Full"
    THEN [post EXCEPT !.row = <<[post.row[1] EXCEPT !.is_deleted = flag]>>]
    ELSE post

PostOps == {"get_id", "update_path", "update_is_deleted", "delete_post_checked",
            "as_full"}

\* The posts a caller may hold: Partial of any id, Full as loaded from the
\* table
PostHandles ==
    {PartialPost(id) : id \in PostIds} \cup {FullPost(id, posts[id]) : id \in DOMAIN posts}

\* One call on a post, on a pool connection; `ok` is whether the statement
\* of the call succeeds.  The response holds the post before and after the
\* call and the argument of the call.
PostCall ==
    /\ \E post \in PostHandles, op \in PostOps, ok \in BOOLEAN,
          newPath \in {PlaceholderPath, ImagePath(FirstId + 1)}, flag \in BOOLEAN :
         LET Resp(res, arg, after) ==
                 [op |-> op, res |-> res, post |-> post, after |-> after, arg |-> arg]
         IN  CASE op = "get_id" ->
                    /\ out' = Resp(Returned("Ok", <<GetId(post)>>), <<>>, post)
                    /\ UNCHANGED posts
               [] op = "as_full" ->
                    /\ out' = Resp(AsFull(post), <<>>, post)
                    /\ UNCHANGED posts
               [] op = "update_path" ->
                    IF ok
                    THEN /\ posts' = UpdatePath(posts, GetId(post), newPath) @@ posts
                         /\ out' = Resp(Returned("Ok", <<>>), <<newPath>>, IfFullSetPath(post, newPath))
                    ELSE /\ out' = Resp(Returned("Err", <<>>), <<newPath>>, post)
                         /\ UNCHANGED posts
               [] op = "update_is_deleted" ->
                    IF ok
                    THEN /\ posts' = UpdateIsDeleted(posts, GetId(post), flag) @@ posts
                         /\ out' = Resp(Returned("Ok", <<>>), <<flag>>, IfFullSetDeleted(post, flag))
                    ELSE /\ out' = Resp(Returned("Err", <<>>), <<flag>>, post)
                         /\ UNCHANGED posts
               [] op = "delete_post_checked" ->
                    IF ok
                    THEN /\ posts' = IF DeleteChecked(GetId(post))
                                     THEN Restrict(posts, DOMAIN posts \ {GetId(post)})
                                     ELSE posts
                         /\ out' = Resp(Returned("Ok", <<DeleteChecked(GetId(post))>>), <<>>, post)
                    ELSE /\ out' = Resp(Returned("Err", <<>>), <<>>, post)
                         /\ UNCHANGED posts
    /\ UNCHANGED <<tags, files, nextId, req, txPosts, txTags, restores, sessions>>

NextPost == PostCall

SpecPost == InitStored /\ [][NextPost]_vars

\* C38: get_id, update_path, update_is_deleted and delete_post_checked do to
\* the store, and answer, what follows from the id of the post alone, the
\* same for a Partial and for a Full post, and a Partial post stays the same
\* Partial post; after update_path and update_is_deleted on a Full post the
\* path and the flag in memory are the values written to the store; as_full
\* on a Partial post panics and returns no data.
C38_PartialActsAsFull ==
    [][out'.op \in PostOps =>
          LET before == out'.post
              after == out'.after
              id == before.id
          IN  /\ after.kind = before.kind
              /\ after.id = id
              /\ before.kind = "Partial" => after = before
              /\ out'.op = "get_id" => out'.res = Returned("Ok", <<id>>) /\ posts' = posts
              /\ out'.op = "as_full" =>
                     /\ posts' = posts
                     /\ before.kind = "Partial" => out'.res = Returned("Panic", <<>>)
                     /\ before.kind = "Full" => out'.res = Returned("Ok", before.row)
              /\ out'.res.kind = "Err" => posts' = posts /\ after = before
              /\ (out'.op = "update_path" /\ out'.res.kind = "Ok") =>
                     /\ posts' = UpdatePath(posts, id, out'.arg[1]) @@ posts
                     /\ before.kind = "Full" =>
                            /\ after.row[1].path = out'.arg[1]
                            /\ id \in DOMAIN posts' => posts'[id].path = after.row[1].path
              /\ (out'.op = "update_is_deleted" /\ out'.res.kind = "Ok") =>
                     /\ posts' = UpdateIsDeleted(posts, id, out'.arg[1]) @@ posts
                     /\ before.kind = "Full" =>
                            /\ after.row[1].is_deleted = out'.arg[1]
                            /\ id \in DOMAIN posts' =>
                                   posts'[id].is_deleted = after.row[1].is_deleted
              /\ (out'.op = "delete_post_checked" /\ out'.res.kind # "Err") =>
                     /\ out'.res = Returned("Ok", <<id \in DOMAIN posts /\ posts[id].is_deleted>>)
                     /\ posts' = IF out'.res.val[1] THEN Restrict(posts, DOMAIN posts \ {id})
                                 ELSE posts]_vars

\* update_path on a Full post has changed the path in the store and in
\* memory
C38_FullPathUpdated ==
    /\ out.op = "update_path"
    /\ out.res.kind = "Ok"
    /\ out.post.kind = "Full"
    /\ out.post.row[1].path # out.arg[1]
    /\ out.after.row[1].path = out.arg[1]
    /\ posts[out.post.id].path = out.arg[1]

====
